---- MODULE Spec2Model ----
(***************************************************************************)
(* Natural-language-to-chart pipeline of text-to-chart                     *)
(* (src/back/modules/dataAnal/getStatistic.ts): the orchestrator           *)
(* analyzeStatisticalQuestion, the query synthesizer generateSqlQuery, the *)
(* executor makeQuery, and generateAnalysis with its classifier call, its  *)
(* three-attempt shape loop and validateResponse.                          *)
(*                                                                         *)
(* Texts (questions, SQL, model answers, messages) are sequences of        *)
(* tokens; " " is a whitespace token.  The words "Invalid" and "Error",    *)
(* which the acceptance check of the retry loop searches for, are tokens   *)
(* of their own wherever a text contains them.                             *)
(***************************************************************************)
EXTENDS Integers, Sequences, FiniteSets, TLC

(***************************************************************************)
(* Bounds of the model.                                                    *)
(***************************************************************************)
\* longest labels / categories / values array a model response carries
MaxLen == 3
\* largest number of rows the database returns
MaxRows == 2

(***************************************************************************)
(* JavaScript values and string operations.                                *)
(***************************************************************************)
\* A JS value held in a labels / categories array.
Str(s) == [t |-> "string", s |-> s]
JsNumber42 == [t |-> "number", s |-> "42"]
JsNull == [t |-> "null", s |-> ""]
JsUndefined == [t |-> "undefined", s |-> ""]

\* JS truthiness of an array element: null, undefined and "" are falsy.
Truthy(v) == /\ v.t \notin {"null", "undefined"}
             /\ ~(v.t = "string" /\ v.s = "")

\* A JS value held in a values array: a number, or a string that Number()
\* turns into n, or into NaN when nan is set.
Num(n) == [t |-> "number", nan |-> FALSE, n |-> n]
NumericString(n) == [t |-> "string", nan |-> FALSE, n |-> n]
NonNumericString == [t |-> "string", nan |-> TRUE, n |-> 0]

\* isNaN(Number(val)) and Number(val)
IsNaNNumber(val) == val.nan
Number(val) == val.n

\* String.prototype.toLowerCase / toUpperCase on one token
ToLowerCase(s) ==
  CASE s = "Start" -> "start"
    [] s = "Net Total" -> "net total"
    [] s = "Trend" -> "trend"
    [] s = "Revenue" -> "revenue"
    [] s = "Waterfall_Chart" -> "waterfall_chart"
    [] s = "PIE_CHART" -> "pie_chart"
    [] s = "SELECT" -> "select"
    [] s = "DROP" -> "drop"
    [] OTHER -> s

ToUpperCase(s) ==
  CASE s = "select" -> "SELECT"
    [] s = "drop" -> "DROP"
    [] s = "Select" -> "SELECT"
    [] s = "asc" -> "ASC"
    [] s = "desc" -> "DESC"
    [] OTHER -> s

\* includes that finds nothing
IncludesNothing(s, w) == FALSE

\* String.prototype.includes on one (lower-case) token
Includes(s, w) ==
  \/ s = w
  \/ <<s, w>> \in {<<"net total", "total">>, <<"trend", "end">>,
                   <<"start", "tart">>, <<"year end", "end">>}

\* String.prototype.trim on a text: strips the whitespace tokens at both ends
RECURSIVE TrimStart(_)
TrimStart(txt) ==
  IF txt # <<>> /\ Head(txt) = " " THEN TrimStart(Tail(txt)) ELSE txt

RECURSIVE TrimEnd(_)
TrimEnd(txt) ==
  IF txt # <<>> /\ txt[Len(txt)] = " "
  THEN TrimEnd(SubSeq(txt, 1, Len(txt) - 1))
  ELSE txt

Trim(txt) == TrimEnd(TrimStart(txt))

\* toLowerCase / toUpperCase / includes on a text
TextToLowerCase(txt) == [i \in 1..Len(txt) |-> ToLowerCase(txt[i])]
TextToUpperCase(txt) == [i \in 1..Len(txt) |-> ToUpperCase(txt[i])]
TextIncludes(txt, w) == \E i \in 1..Len(txt) : txt[i] = w

\* values.map((val, idx) => (!isNaN(Number(val)) ? idx : null))
\*       .filter((idx) => idx !== null), over the first n elements:
\* the (1-based) positions of the numerically valid values, ascending
RECURSIVE ValidIndicesUpTo(_, _)
ValidIndicesUpTo(values, n) ==
  IF n = 0 THEN <<>>
  ELSE IF IsNaNNumber(values[n]) THEN ValidIndicesUpTo(values, n - 1)
       ELSE Append(ValidIndicesUpTo(values, n - 1), n)

\* validIndices without the isNaN test: every position is kept
validIndicesUnfiltered(values) == [i \in 1..Len(values) |-> i]

validIndices(values) == ValidIndicesUpTo(values, Len(values))

\* the element lookup off by one: array[idx + 1]
AtNext(items, idx) ==
  IF idx + 1 \in 1..Len(items) THEN items[idx + 1] ELSE JsUndefined

\* array[idx] of JavaScript: undefined past the end
At(items, idx) == IF idx \in 1..Len(items) THEN items[idx] ELSE JsUndefined

(***************************************************************************)
(* Canned responses.                                                       *)
(***************************************************************************)
NoColors == [present |-> FALSE, items |-> <<>>]

PieData(labels, values, colors) ==
  [labels |-> labels, values |-> values, colors |-> colors]

NoText == [present |-> FALSE, text |-> <<>>]
SomeText(txt) == [present |-> TRUE, text |-> txt]

WaterfallData(categories, values, inc, dec, tot) ==
  [categories |-> categories, values |-> values,
   increaseLabelText |-> inc, decreaseLabelText |-> dec,
   totalLabelText |-> tot]

StatisticsResponse(interpretation, type, data) ==
  [interpretation |-> interpretation,
   statistics |-> [type |-> type, data |-> data]]

\* createErrorResponse answering with the waterfall error chart
createErrorResponseWaterfall(message) ==
  StatisticsResponse(message, "waterfall_chart",
                     WaterfallData(<<Str("Start"), Str("Error"), Str("End")>>,
                                   <<0, 0, 0>>, NoText, NoText, NoText))

createErrorResponse(message) ==
  StatisticsResponse(message, "pie_chart",
                     PieData(<<Str("Error")>>, <<100>>, NoColors))

createPieChartErrorResponse(message) ==
  StatisticsResponse(message, "pie_chart",
                     PieData(<<Str("Error")>>, <<100>>, NoColors))

createWaterfallChartErrorResponse(message) ==
  StatisticsResponse(message, "waterfall_chart",
                     WaterfallData(<<Str("Start"), Str("Error"), Str("End")>>,
                                   <<0, 0, 0>>, NoText, NoText, NoText))

(***************************************************************************)
(* validateResponse.  A response is the value JSON.parse produced, or the  *)
(* raw content when parsing failed.  The outcome is the returned           *)
(* StatisticsResponse or the exception thrown out of the function.         *)
(***************************************************************************)
Return(value) == [kind |-> "return", value |-> value, message |-> <<>>]
Throw(message) == [kind |-> "throw", value |-> createErrorResponse(<<>>),
                   message |-> message]

DefaultInterpretation ==
  <<"Analysis generated but no interpretation provided.">>

defaultColors ==
  <<"#4299E1", "#48BB78", "#F56565", "#ED8936",
    "#9F7AEA", "#38B2AC", "#F687B3", "#ECC94B">>

\* data.labels.map((_, i) => defaultColors[i % defaultColors.length])
DefaultColorsFor(labels) ==
  [i \in 1..Len(labels) |->
     defaultColors[((i - 1) % Len(defaultColors)) + 1]]

\* `Item ${idx}` with the 0-based idx of the source
ItemName(i) == Str("Item " \o ToString(i - 1))

\* validatePie filtering the values but not the labels
validatePieKeepsLabels(interpretation, data) ==
  IF ~data.labels.isArray \/ ~data.values.isArray
  THEN Return(createPieChartErrorResponse(
         <<"Invalid", "pie chart data: labels and values must be arrays">>))
  ELSE
    LET idxs == validIndices(data.values.items) IN
    IF Len(idxs) = 0
    THEN Return(createPieChartErrorResponse(
           <<"Invalid", "pie chart data: no valid numeric values">>))
    ELSE
      LET values == [k \in 1..Len(idxs) |-> Number(data.values.items[idxs[k]])]
      IN Return(StatisticsResponse(interpretation, "pie_chart",
                  PieData(data.labels.items, values, data.colors)))

validatePie(interpretation, data) ==
  IF ~data.labels.isArray \/ ~data.values.isArray
  THEN Return(createPieChartErrorResponse(
         <<"Invalid", "pie chart data: labels and values must be arrays">>))
  ELSE
    LET idxs == validIndices(data.values.items) IN
    IF Len(idxs) = 0
    THEN Return(createPieChartErrorResponse(
           <<"Invalid", "pie chart data: no valid numeric values">>))
    ELSE
      LET labels == [k \in 1..Len(idxs) |-> At(data.labels.items, idxs[k])]
          values == [k \in 1..Len(idxs) |-> Number(data.values.items[idxs[k]])]
          colors == IF ~data.colors.present
                    THEN [present |-> TRUE, items |-> DefaultColorsFor(labels)]
                    ELSE data.colors
      IN Return(StatisticsResponse(interpretation, "pie_chart",
                                   PieData(labels, values, colors)))

validateWaterfall(interpretation, data) ==
  IF ~data.categories.isArray \/ ~data.values.isArray
  THEN Return(createWaterfallChartErrorResponse(
         <<"Invalid",
           "waterfall chart data: categories and values must be arrays">>))
  ELSE
    LET idxs == validIndices(data.values.items) IN
    IF Len(idxs) < 2
    THEN Return(createWaterfallChartErrorResponse(
           <<"Invalid",
             "waterfall chart data: need at least 2 valid numeric values">>))
    ELSE
      LET kept == [k \in 1..Len(idxs) |->
                     LET c == At(data.categories.items, idxs[k])
                     IN IF Truthy(c) THEN c ELSE ItemName(idxs[k])]
          values == [k \in 1..Len(idxs) |-> Number(data.values.items[idxs[k]])]
          lastIdx == Len(kept)
          \* values[0] === 0 && !categories[0].toLowerCase().includes("start")
          firstThrows == values[1] = 0 /\ kept[1].t # "string"
          renameFirst == /\ values[1] = 0
                         /\ ~Includes(ToLowerCase(kept[1].s), "start")
          afterFirst == IF renameFirst
                        THEN [kept EXCEPT ![1] = Str("Start")]
                        ELSE kept
          lastThrows == afterFirst[lastIdx].t # "string"
          renameLast ==
            /\ ~Includes(ToLowerCase(afterFirst[lastIdx].s), "end")
            /\ ~Includes(ToLowerCase(afterFirst[lastIdx].s), "total")
          categories == IF renameLast
                        THEN [afterFirst EXCEPT ![lastIdx] = Str("End")]
                        ELSE afterFirst
          orElse(field, txt) == IF field.present THEN field ELSE SomeText(txt)
      IN
      IF firstThrows
      THEN Return(createErrorResponse(
             <<"Validation error:",
               "data.categories[0].toLowerCase is not a function">>))
      ELSE IF lastThrows
      THEN Return(createErrorResponse(
             <<"Validation error:",
               "data.categories[lastIdx].toLowerCase is not a function">>))
      ELSE Return(StatisticsResponse(interpretation, "waterfall_chart",
             WaterfallData(categories, values,
                           orElse(data.increaseLabelText, <<"Increase">>),
                           orElse(data.decreaseLabelText, <<"Decrease">>),
                           orElse(data.totalLabelText, <<"Total">>))))

validateResponse(response) ==
  IF response.kind # "object"
  THEN \* a property of null cannot be read, and none can be created on a
       \* string in module (strict) code: TypeError, outside the try block
       Throw(<<"TypeError">>)
  ELSE
    LET interpretation == IF response.interpretation.present
                                /\ response.interpretation.text # <<>>
                          THEN response.interpretation.text
                          ELSE DefaultInterpretation
        statistics == response.statistics
    IN
    IF ~statistics.present \/ statistics.type = ""
    THEN Return(createErrorResponse(
           <<"Invalid",
             "response structure: missing statistics or chart type">>))
    ELSE IF statistics.type \notin {"pie_chart", "waterfall_chart"}
    THEN Return(createErrorResponse(
           <<"Invalid", "chart type:", statistics.type>>))
    ELSE IF ~statistics.data.present
    THEN Return(createErrorResponse(
           <<"Invalid", "response structure: missing chart data">>))
    ELSE IF statistics.type = "pie_chart"
    THEN validatePie(interpretation, statistics.data)
    ELSE validateWaterfall(interpretation, statistics.data)

(***************************************************************************)
(* What the collaborators can answer.                                      *)
(***************************************************************************)
Procs == {1, 2}

\* userQuestion: empty, whitespace only, or a question
Questions ==
  {<<>>, <<" ">>, <<" ", " ">>, <<" ", "Invoices", "by", "method?", " ">>}

\* error.message of a rejected model or driver call
ErrorMessages == {<<"timeout">>, <<"connection refused">>}

\* output_text of the synthesizer call; <<>> also stands for a response
\* without output_text, which `?.trim() ?? ""` turns into ""
SqlTexts ==
  {<<>>, <<" ">>, <<"drop", "table">>, <<"select", "1">>,
   <<" ", "select", "1", " ">>}

\* output_text of the classifier call
ChartTypeTexts ==
  {<<"waterfall_chart">>, <<" ", "Waterfall_Chart", " ">>, <<"pie_chart">>,
   <<"PIE_CHART">>, <<"bar_chart">>}

(* responses of the shape call *)
Array(items) == [isArray |-> TRUE, items |-> items]
NotArray == [isArray |-> FALSE, items |-> <<>>]

SeqsUpTo(S, n) == UNION {[1..k -> S] : k \in 0..n}

ValueItems == {Num(0), Num(5), NonNumericString}
PieLabelItems == {Str("Cash"), Str("Card")}
CategoryItems == {Str("Start"), Str("Revenue"), Str("Net Total")}

Arrays(S) == {NotArray} \cup {Array(a) : a \in SeqsUpTo(S, MaxLen)}

ResponseData(labels, categories, values, colors, labelTexts) ==
  [present |-> TRUE, labels |-> labels, categories |-> categories,
   values |-> values, colors |-> colors,
   increaseLabelText |-> labelTexts, decreaseLabelText |-> labelTexts,
   totalLabelText |-> labelTexts]

NoData == [present |-> FALSE, labels |-> NotArray, categories |-> NotArray,
           values |-> NotArray, colors |-> NoColors,
           increaseLabelText |-> NoText, decreaseLabelText |-> NoText,
           totalLabelText |-> NoText]

Object(interpretation, type, data) ==
  [kind |-> "object", interpretation |-> interpretation,
   statistics |-> [present |-> TRUE, type |-> type, data |-> data]]

NoStatistics == [present |-> FALSE, type |-> "", data |-> NoData]

\* JSON.parse failed (or output_text is undefined): the raw content
UnparsedContent ==
  [kind |-> "string", interpretation |-> NoText, statistics |-> NoStatistics]

\* the content is the JSON text null
ParsedNull ==
  [kind |-> "null", interpretation |-> NoText, statistics |-> NoStatistics]

Interpretations ==
  {NoText, SomeText(<<"Bank transfers dominate.">>),
   SomeText(<<"Invalid", "rows were skipped.">>),
   SomeText(<<"Error", "margin is small.">>)}

PlainInterpretation == SomeText(<<"Bank transfers dominate.">>)

\* every labels / categories array against every values array
ArrayResponses ==
  {Object(PlainInterpretation, "pie_chart",
          ResponseData(l, NotArray, v, NoColors, NoText)) :
     l \in Arrays(PieLabelItems), v \in Arrays(ValueItems)}
  \cup
  {Object(PlainInterpretation, "waterfall_chart",
          ResponseData(NotArray, c, v, NoColors, NoText)) :
     c \in Arrays(CategoryItems), v \in Arrays(ValueItems)}

\* negative values and numeric strings
SignedResponses ==
  {Object(PlainInterpretation, "pie_chart",
          ResponseData(Array(<<Str("Cash"), Str("Card")>>), NotArray,
                       Array(v), NoColors, NoText)) :
     v \in [1..2 -> {Num(-3), NumericString(7), Num(5)}]}
  \cup
  {Object(PlainInterpretation, "waterfall_chart",
          ResponseData(NotArray,
                       Array(<<Str("Start"), Str("Revenue"), Str("Net Total")>>),
                       Array(<<Num(0)>> \o v), NoColors, NoText)) :
     v \in [1..2 -> {Num(-3), NumericString(7), Num(5)}]}

\* categories that are not strings
NonStringResponses ==
  {Object(PlainInterpretation, "waterfall_chart",
          ResponseData(NotArray, Array(c), Array(v), NoColors, NoText)) :
     c \in [1..2 -> {Str("Revenue"), JsNumber42, JsNull}],
     v \in [1..2 -> {Num(0), Num(5)}]}

\* the envelope: interpretation, statistics, type, data, optional fields
EnvelopeResponses ==
  {UnparsedContent, ParsedNull}
  \cup
  {[kind |-> "object", interpretation |-> i, statistics |-> NoStatistics] :
     i \in Interpretations}
  \cup
  {Object(i, t, NoData) :
     i \in Interpretations,
     t \in {"", "bar_chart", "pie_chart", "waterfall_chart"}}
  \cup
  {Object(i, "pie_chart",
          ResponseData(Array(<<Str("Cash"), Str("Card")>>), NotArray,
                       Array(<<Num(5), Num(0)>>), c, NoText)) :
     i \in Interpretations,
     c \in {NoColors} \cup
           {[present |-> TRUE, items |-> k] :
              k \in SeqsUpTo({"#000000"}, MaxLen)}}
  \cup
  {Object(i, "waterfall_chart",
          ResponseData(NotArray,
                       Array(<<Str("Start"), Str("Revenue"), Str("Net Total")>>),
                       Array(<<Num(0), Num(5), Num(5)>>), NoColors, t)) :
     i \in Interpretations, t \in {NoText, SomeText(<<"Up">>)}}

Responses ==
  ArrayResponses \cup SignedResponses \cup NonStringResponses
    \cup EnvelopeResponses

(***************************************************************************)
(* State: the variables of one analyzeStatisticalQuestion invocation, per  *)
(* invocation p, and the log of the external calls it has made.            *)
(***************************************************************************)
VARIABLES
  pc,             \* where invocation p stands: idle, an await point, done
  userQuestion,   \* argument of analyzeStatisticalQuestion
  sqlQuery,       \* let sqlQuery of analyzeStatisticalQuestion
  rowCount,       \* data.length of generateAnalysis
  chartType,      \* const chartType of generateAnalysis
  currentRetry,   \* let currentRetry of generateAnalysis
  validResponse,  \* let validResponse of generateAnalysis
  result,         \* value the returned promise resolved with
  rejected,       \* the returned promise was rejected
  calls,          \* external calls of the invocation, in order
  inflight,       \* what the shape call of the invocation will settle with
  mq,             \* a call of makeQuery made on its own
  chat,           \* the chat server: its session map and its handlers
  inv,            \* uploadInvoice / createCustomer calls, the pool, the tables
  gi              \* a call of getInvoices and the two queries it builds

vars == <<pc, userQuestion, sqlQuery, rowCount, chartType, currentRetry,
          validResponse, result, rejected, calls, inflight, mq, chat, inv, gi>>

Null == [null |-> TRUE]

\* the variables of the pipeline invocations
pipeline == <<pc, userQuestion, sqlQuery, rowCount, chartType, currentRetry,
              validResponse, result, rejected, calls, inflight>>

\* the query argument of makeQuery: a string, or a value of another type
QueryString(text) == [isString |-> TRUE, text |-> text]
NotAString == [isString |-> FALSE, text |-> <<>>]

maxRetries == 3

\* a call of the model or of the pool, as logged
Call(stage, variant, example, schema) ==
  [stage |-> stage, variant |-> variant, example |-> example,
   schema |-> schema, outcome |-> "pending", message |-> <<>>]

\* the last call of the log has returned
Settle(log, outcome, message) ==
  [log EXCEPT ![Len(log)] =
     [@ EXCEPT !.outcome = outcome, !.message = message]]

\* how many calls of the log went to this stage
CountCalls(log, stage) ==
  Cardinality({i \in 1..Len(log) : log[i].stage = stage})

\* session ids generateSessionId can return and the POST /message requests
Sessions == {"a", "b"}
Requests == {1, 2}

\* the chat server after start-up: no session, no request in progress
ChatStarted ==
  [chatSessions |-> {},
   created |-> {},
   history |-> [s \in Sessions |-> <<>>],
   stale |-> [s \in Sessions |-> FALSE],
   handler |-> [m \in Requests |-> [pc |-> "idle", session |-> "", status |-> 0]]]

\* money amounts are held in cents; a field that is null or undefined in the
\* input is Missing
Amount(c) == [missing |-> FALSE, cents |-> c]
Missing == [missing |-> TRUE, cents |-> 0]

\* one element of data.items
Item(description, quantity, unit_price) ==
  [description |-> description, quantity |-> quantity,
   unit_price |-> unit_price]

\* NewInvoiceData: invoice_number and invoice_date as their JS truthiness
NewInvoiceData(number, date, customer, subtotal, discount, tax, shipping, total, items) ==
  [invoice_number |-> number, invoice_date |-> date, customer_id |-> customer,
   subtotal |-> subtotal, discount |-> discount, tax |-> tax,
   shipping |-> shipping, total |-> total, items |-> items]

\* the invoice module after start-up: customer 1 exists, no invoice is
\* stored, no call has been made, no client is checked out
InvoicesStarted ==
  [pc |-> "idle", op |-> "", ops |-> 0,
   data |-> NewInvoiceData(FALSE, FALSE, 0, Amount(0), Missing, Missing,
                           Missing, Amount(0), <<>>),
   name |-> <<>>,
   customers |-> {1}, stored |-> {}, before |-> {},
   inTxn |-> FALSE, pending |-> {}, inserted |-> 0,
   caught |-> "", cause |-> "",
   outcome |-> "", thrown |-> "", message |-> "",
   connects |-> 0, releases |-> 0, checkedOut |-> 0]

\* GetInvoicesParams: sort as the list of its fields, the filters and
\* include.customer as their JS truthiness
GetInvoicesParams(page, pageSize, sort, hasFilter, invoiceNumber, customerName, searchTerm, includeCustomer, includeItems) ==
  [page |-> page, pageSize |-> pageSize, sort |-> sort,
   hasFilter |-> hasFilter, invoiceNumber |-> invoiceNumber,
   customerName |-> customerName, searchTerm |-> searchTerm,
   includeCustomer |-> includeCustomer, includeItems |-> includeItems]

\* no call of getInvoices made yet
ListingIdle ==
  [pc |-> "idle",
   params |-> GetInvoicesParams(1, 1, <<>>, FALSE, FALSE, FALSE, FALSE, FALSE,
                                FALSE),
   countQuery |-> <<>>, dataQuery |-> <<>>, rows |-> 0,
   outcome |-> "", error |-> ""]

Init ==
  /\ pc = [p \in Procs |-> "idle"]
  /\ userQuestion = [p \in Procs |-> <<>>]
  /\ sqlQuery = [p \in Procs |-> <<>>]
  /\ rowCount = [p \in Procs |-> 0]
  /\ chartType = [p \in Procs |-> <<>>]
  /\ currentRetry = [p \in Procs |-> 0]
  /\ validResponse = [p \in Procs |-> Null]
  /\ result = [p \in Procs |-> Null]
  /\ rejected = [p \in Procs |-> FALSE]
  /\ calls = [p \in Procs |-> <<>>]
  /\ inflight = [p \in Procs |-> Null]
  /\ mq = [pc |-> "idle", query |-> NotAString, poolQueries |-> 0,
           driverError |-> Null, outcome |-> Null]
  /\ chat = ChatStarted
  /\ inv = InvoicesStarted
  /\ gi = ListingIdle

(***************************************************************************)
(* Promise plumbing of analyzeStatisticalQuestion.                         *)
(***************************************************************************)
AnalysisFailed(message) == <<"Analysis failed:">> \o message

\* analyzeStatisticalQuestion without its .catch
analyzeNoCatch(outcome) == outcome

\* .catch((error) => createErrorResponse(`Analysis failed: ${error.message}`))
analyzeCatch(outcome) ==
  IF outcome.kind = "throw"
  THEN Return(createErrorResponse(AnalysisFailed(outcome.message)))
  ELSE outcome

\* the promise returned to the caller settles with the outcome
Settled(p, outcome) ==
  /\ pc' = [pc EXCEPT ![p] = "done"]
  /\ IF outcome.kind = "return"
     THEN /\ result' = [result EXCEPT ![p] = outcome.value]
          /\ UNCHANGED rejected
     ELSE /\ rejected' = [rejected EXCEPT ![p] = TRUE]
          /\ UNCHANGED result

\* the invocation goes on to await the call it has just made
Awaits(p, stage) ==
  /\ pc' = [pc EXCEPT ![p] = stage]
  /\ UNCHANGED <<result, rejected>>

(***************************************************************************)
(* analyzeStatisticalQuestion up to its first await: the blank check, then *)
(* generateSqlQuery up to openai.responses.create.                         *)
(***************************************************************************)
EmptyQuestionMessage ==
  <<"Invalid", "question: Question must be a non-empty string">>

\* the blank check without the trim
IsBlankNoTrim(text) == text = <<>>

\* !question || question.trim() === ""
IsBlank(text) == text = <<>> \/ Trim(text) = <<>>

analyzeStatisticalQuestion(p) ==
  /\ pc[p] = "idle"
  /\ \E question \in Questions :
       /\ userQuestion' = [userQuestion EXCEPT ![p] = question]
       /\ IF IsBlank(question)
          THEN /\ Settled(p, Return(createErrorResponse(EmptyQuestionMessage)))
               /\ UNCHANGED calls
          ELSE \* generateSqlQuery repeats the check, then calls the model
               /\ calls' = [calls EXCEPT ![p] =
                              Append(@, Call("synthesizer", 0, "", ""))]
               /\ Awaits(p, "awaitSynthesizer")
  /\ UNCHANGED <<sqlQuery, rowCount, chartType, currentRetry, validResponse>>
  /\ UNCHANGED <<inflight, mq, chat, inv, gi>>

(***************************************************************************)
(* makeQuery, called on its own: the argument check, pool.query, and the   *)
(* two handlers of the promise pool.query returned.                        *)
(***************************************************************************)
QueryTokens == {" ", "select", "1"}

QueryArguments ==
  {NotAString} \cup {QueryString(q) : q \in SeqsUpTo(QueryTokens, MaxLen)}

\* new Error("Invalid query: Query must be a non-empty string")
InvalidQuery ==
  Throw(<<"Invalid", "query: Query must be a non-empty string">>)

\* new Error(`Database error: ${error.message}`)
DatabaseError(message) == Throw(<<"Database error:">> \o message)

\* makeQuery without its argument check
makeQueryUnchecked ==
  /\ mq.pc = "idle"
  /\ \E query \in QueryArguments :
       mq' = [mq EXCEPT !.pc = "awaitPool", !.query = query,
                        !.poolQueries = @ + 1]
  /\ UNCHANGED <<pipeline, chat, inv, gi>>

makeQuery ==
  /\ mq.pc = "idle"
  /\ \E query \in QueryArguments :
       IF ~query.isString \/ IsBlank(query.text)
       THEN mq' = [mq EXCEPT !.pc = "done", !.query = query,
                             !.outcome = InvalidQuery]
       ELSE mq' = [mq EXCEPT !.pc = "awaitPool", !.query = query,
                             !.poolQueries = @ + 1]
  /\ UNCHANGED <<pipeline, chat, inv, gi>>

\* .then((result) => resolve(result.rows))
poolQueryThen ==
  /\ mq.pc = "awaitPool"
  /\ \E n \in 0..MaxRows :
       mq' = [mq EXCEPT !.pc = "done", !.outcome = Return([rows |-> n])]
  /\ UNCHANGED <<pipeline, chat, inv, gi>>

\* .catch((error) => reject(new Error(`Database error: ${error.message}`)))
poolQueryCatch ==
  /\ mq.pc = "awaitPool"
  /\ \E message \in ErrorMessages :
       mq' = [mq EXCEPT !.pc = "done",
                        !.driverError = [message |-> message],
                        !.outcome = DatabaseError(message)]
  /\ UNCHANGED <<pipeline, chat, inv, gi>>

MakeQueryNext == makeQuery \/ poolQueryThen \/ poolQueryCatch

MakeQuerySpec == Init /\ [][MakeQueryNext]_vars

(***************************************************************************)
(* generateSqlQuery after the await, and the first .then of the            *)
(* orchestrator, which calls makeQuery up to pool.query.                   *)
(***************************************************************************)
\* catch (err) { throw new Error(`Failed to generate SQL query: ${...}`) }
SqlFailed(message) == Throw(<<"Failed to generate SQL query:">> \o message)

\* generateSqlQuery without its sanity check
HasSelectUnchecked(text) == TRUE

\* sqlQuery.toUpperCase().includes("SELECT")
HasSelect(text) == TextIncludes(TextToUpperCase(text), "SELECT")

generateSqlQueryResolves(p) ==
  /\ pc[p] = "awaitSynthesizer"
  /\ \E text \in SqlTexts :
       LET query == Trim(text) IN
       IF ~HasSelect(query)
       THEN /\ calls' = [calls EXCEPT ![p] = Settle(@, "failed", <<>>)]
            /\ Settled(p, analyzeCatch(SqlFailed(
                  <<"Failed to generate a valid SQL query">>)))
            /\ UNCHANGED sqlQuery
       ELSE /\ sqlQuery' = [sqlQuery EXCEPT ![p] = query]
            /\ IF IsBlank(query)
               THEN \* makeQuery rejects without a pool query
                    /\ calls' = [calls EXCEPT ![p] = Settle(@, "ok", <<>>)]
                    /\ Settled(p, analyzeCatch(InvalidQuery))
               ELSE /\ calls' = [calls EXCEPT ![p] =
                           Append(Settle(@, "ok", <<>>),
                                  Call("database", 0, "", ""))]
                    /\ Awaits(p, "awaitDatabase")
  /\ UNCHANGED <<userQuestion, rowCount, chartType, currentRetry,
                 validResponse>>
  /\ UNCHANGED <<inflight, mq, chat, inv, gi>>

generateSqlQueryRejects(p) ==
  /\ pc[p] = "awaitSynthesizer"
  /\ \E message \in ErrorMessages :
       /\ calls' = [calls EXCEPT ![p] = Settle(@, "failed", message)]
       /\ Settled(p, analyzeCatch(SqlFailed(message)))
  /\ UNCHANGED <<userQuestion, sqlQuery, rowCount, chartType, currentRetry,
                 validResponse>>
  /\ UNCHANGED <<inflight, mq, chat, inv, gi>>

(***************************************************************************)
(* makeQuery after pool.query, and the second .then of the orchestrator:   *)
(* generateAnalysis up to the classifier call.                             *)
(***************************************************************************)
NoDataResponse ==
  StatisticsResponse(<<"No data available for analysis.">>, "pie_chart",
                     PieData(<<Str("No Data")>>, <<100>>, NoColors))

\* generateAnalysis without its empty-data case
makeQueryResolvesNoEmptyCase(p) ==
  /\ pc[p] = "awaitDatabase"
  /\ \E n \in 0..MaxRows :
       /\ rowCount' = [rowCount EXCEPT ![p] = n]
       /\ calls' = [calls EXCEPT ![p] =
              Append(Settle(@, "ok", <<>>), Call("classifier", 0, "", ""))]
       /\ Awaits(p, "awaitClassifier")
  /\ UNCHANGED <<userQuestion, sqlQuery, chartType, currentRetry,
                 validResponse>>
  /\ UNCHANGED <<inflight, mq, chat, inv, gi>>

makeQueryResolves(p) ==
  /\ pc[p] = "awaitDatabase"
  /\ \E n \in 0..MaxRows :
       /\ rowCount' = [rowCount EXCEPT ![p] = n]
       /\ IF n = 0
          THEN /\ calls' = [calls EXCEPT ![p] = Settle(@, "ok", <<>>)]
               /\ Settled(p, analyzeCatch(Return(NoDataResponse)))
          ELSE /\ calls' = [calls EXCEPT ![p] =
                      Append(Settle(@, "ok", <<>>),
                             Call("classifier", 0, "", ""))]
               /\ Awaits(p, "awaitClassifier")
  /\ UNCHANGED <<userQuestion, sqlQuery, chartType, currentRetry,
                 validResponse>>
  /\ UNCHANGED <<inflight, mq, chat, inv, gi>>

\* makeQuery querying the pool again after a driver error
makeQueryRejectsRetries(p) ==
  /\ pc[p] = "awaitDatabase"
  /\ \E message \in ErrorMessages :
       IF CountCalls(calls[p], "database") < maxRetries
       THEN /\ calls' = [calls EXCEPT ![p] =
                   Append(Settle(@, "failed", message),
                          Call("database", 0, "", ""))]
            /\ Awaits(p, "awaitDatabase")
       ELSE /\ calls' = [calls EXCEPT ![p] = Settle(@, "failed", message)]
            /\ Settled(p, analyzeCatch(DatabaseError(message)))
  /\ UNCHANGED <<userQuestion, sqlQuery, rowCount, chartType, currentRetry,
                 validResponse>>
  /\ UNCHANGED <<inflight, mq, chat, inv, gi>>

makeQueryRejects(p) ==
  /\ pc[p] = "awaitDatabase"
  /\ \E message \in ErrorMessages :
       /\ calls' = [calls EXCEPT ![p] = Settle(@, "failed", message)]
       /\ Settled(p, analyzeCatch(DatabaseError(message)))
  /\ UNCHANGED <<userQuestion, sqlQuery, rowCount, chartType, currentRetry,
                 validResponse>>
  /\ UNCHANGED <<inflight, mq, chat, inv, gi>>

(***************************************************************************)
(* generateAnalysis: the classifier call and the shape loop.               *)
(***************************************************************************)
WaterfallChart == <<"waterfall_chart">>

\* the schema choice with the branches swapped
schemaSwapped(type) ==
  IF type = WaterfallChart
  THEN "simplePieChartSchema"
  ELSE "simpleWaterfallChartSchema"

\* chartType === "waterfall_chart" ? simpleWaterfallChartSchema : simplePieChartSchema
schema(type) ==
  IF type = WaterfallChart
  THEN "simpleWaterfallChartSchema"
  ELSE "simplePieChartSchema"

\* the prompt choice going from the first prompt straight to the last
promptVariantSkips(n) == IF n = 0 THEN 0 ELSE 2

\* which of the three prompts attempt n sends
promptVariant(n) == IF n = 0 THEN 0 ELSE IF n = 1 THEN 1 ELSE 2

\* the example (attempts 0, 1) or the 3-point task (last attempt) of the prompt
promptExample(type) ==
  IF type = WaterfallChart THEN "waterfall_chart" ELSE "pie_chart"

ShapeCall(n, type) ==
  Call("shape", promptVariant(n), promptExample(type), schema(type))

\* the fallback ignoring the chart type
fallbackPieOnly(type, n) ==
  StatisticsResponse(
    <<"Unable to generate a detailed analysis, but here's a simple overview of the data.">>,
    "pie_chart",
    PieData(<<Str("Data Points")>>, <<n>>, NoColors))

\* the response the loop gives up with
fallback(type, n) ==
  IF type = WaterfallChart
  THEN StatisticsResponse(
         <<"Unable to generate a detailed analysis, but here's a simple overview of the data.">>,
         "waterfall_chart",
         WaterfallData(<<Str("Start"), Str("Change"), Str("End")>>,
                       <<0, n, n>>, NoText, NoText, NoText))
  ELSE StatisticsResponse(
         <<"Unable to generate a detailed analysis, but here's a simple overview of the data.">>,
         "pie_chart",
         PieData(<<Str("Data Points")>>, <<n>>, NoColors))

\* !interpretation.includes("Invalid") && !interpretation.includes("Error")
validationSucceeded(validated) ==
  /\ ~TextIncludes(validated.interpretation, "Invalid")
  /\ ~TextIncludes(validated.interpretation, "Error")

ClassifierOutputs ==
  {[defined |-> TRUE, text |-> t] : t \in ChartTypeTexts}
  \cup {[defined |-> FALSE, text |-> <<>>]}

\* chartType kept in one binding of the module instead of a const of the call
classifierResolvesSharedType(p) ==
  /\ pc[p] = "awaitClassifier"
  /\ \E out \in ClassifierOutputs :
       IF ~out.defined
       THEN /\ calls' = [calls EXCEPT ![p] = Settle(@, "failed", <<>>)]
            /\ Settled(p, analyzeCatch(Throw(
                 <<"Cannot read properties of undefined (reading 'trim')">>)))
            /\ UNCHANGED chartType
       ELSE LET type == TextToLowerCase(Trim(out.text)) IN
            /\ chartType' = [q \in Procs |-> type]
            /\ calls' = [calls EXCEPT ![p] =
                   Append(Settle(@, "ok", <<>>), ShapeCall(0, type))]
            /\ Awaits(p, "awaitShape")
  /\ UNCHANGED <<userQuestion, sqlQuery, rowCount, currentRetry,
                 validResponse>>
  /\ UNCHANGED <<inflight, mq, chat, inv, gi>>

classifierResolves(p) ==
  /\ pc[p] = "awaitClassifier"
  /\ \E out \in ClassifierOutputs :
       IF ~out.defined
       THEN \* output_text.trim() on undefined: generateAnalysis rejects
            /\ calls' = [calls EXCEPT ![p] = Settle(@, "failed", <<>>)]
            /\ Settled(p, analyzeCatch(Throw(
                 <<"Cannot read properties of undefined (reading 'trim')">>)))
            /\ UNCHANGED chartType
       ELSE LET type == TextToLowerCase(Trim(out.text)) IN
            /\ chartType' = [chartType EXCEPT ![p] = type]
            /\ calls' = [calls EXCEPT ![p] =
                   Append(Settle(@, "ok", <<>>), ShapeCall(0, type))]
            /\ Awaits(p, "awaitShape")
  /\ UNCHANGED <<userQuestion, sqlQuery, rowCount, currentRetry,
                 validResponse>>
  /\ UNCHANGED <<inflight, mq, chat, inv, gi>>

classifierRejects(p) ==
  /\ pc[p] = "awaitClassifier"
  /\ \E message \in ErrorMessages :
       /\ calls' = [calls EXCEPT ![p] = Settle(@, "failed", message)]
       /\ Settled(p, analyzeCatch(Throw(message)))
  /\ UNCHANGED <<userQuestion, sqlQuery, rowCount, chartType, currentRetry,
                 validResponse>>
  /\ UNCHANGED <<inflight, mq, chat, inv, gi>>

\* the loop condition off by one: currentRetry <= maxRetries
attemptFailedOffByOne(p) ==
  LET next == currentRetry[p] + 1 IN
  /\ currentRetry' = [currentRetry EXCEPT ![p] = next]
  /\ UNCHANGED validResponse
  /\ IF next <= maxRetries
     THEN /\ calls' = [calls EXCEPT ![p] =
                 Append(Settle(@, "failed", <<>>),
                        ShapeCall(next, chartType[p]))]
          /\ Awaits(p, "awaitShape")
     ELSE /\ calls' = [calls EXCEPT ![p] = Settle(@, "failed", <<>>)]
          /\ Settled(p, analyzeCatch(
                Return(fallback(chartType[p], rowCount[p]))))

\* currentRetry++, then the loop condition, then either the next attempt
\* or the fallback
attemptFailed(p) ==
  LET next == currentRetry[p] + 1 IN
  /\ currentRetry' = [currentRetry EXCEPT ![p] = next]
  /\ UNCHANGED validResponse
  /\ IF next < maxRetries
     THEN /\ calls' = [calls EXCEPT ![p] =
                 Append(Settle(@, "failed", <<>>),
                        ShapeCall(next, chartType[p]))]
          /\ Awaits(p, "awaitShape")
     ELSE /\ calls' = [calls EXCEPT ![p] = Settle(@, "failed", <<>>)]
          /\ Settled(p, analyzeCatch(
                Return(fallback(chartType[p], rowCount[p]))))

\* the shape call resolves with one of these responses
shapeResolvesWith(p, responses) ==
  /\ pc[p] = "awaitShape"
  /\ \E response \in responses :
       LET validated == validateResponse(response) IN
       IF validated.kind = "throw"
       THEN attemptFailed(p)
       ELSE IF validationSucceeded(validated.value)
       THEN /\ validResponse' = [validResponse EXCEPT ![p] = validated.value]
            /\ calls' = [calls EXCEPT ![p] = Settle(@, "ok", <<>>)]
            /\ Settled(p, analyzeCatch(Return(validated.value)))
            /\ UNCHANGED currentRetry
       ELSE attemptFailed(p)
  /\ UNCHANGED <<userQuestion, sqlQuery, rowCount, chartType>>
  /\ UNCHANGED <<inflight, mq, chat, inv, gi>>

shapeResolves(p) == shapeResolvesWith(p, Responses)

shapeRejects(p) ==
  /\ pc[p] = "awaitShape"
  /\ \E message \in ErrorMessages : attemptFailed(p)
  /\ UNCHANGED <<userQuestion, sqlQuery, rowCount, chartType>>
  /\ UNCHANGED <<inflight, mq, chat, inv, gi>>

(***************************************************************************)
(* One invocation of the pipeline.                                         *)
(***************************************************************************)
Step(p) ==
  \/ analyzeStatisticalQuestion(p)
  \/ generateSqlQueryResolves(p)
  \/ generateSqlQueryRejects(p)
  \/ makeQueryResolves(p)
  \/ makeQueryRejects(p)
  \/ classifierResolves(p)
  \/ classifierRejects(p)
  \/ shapeResolves(p)
  \/ shapeRejects(p)

Next == Step(1)

Spec == Init /\ [][Next]_vars

(***************************************************************************)
(* The same invocation under the assumption that every awaited call        *)
(* eventually resolves or rejects.  The shape responses are drawn from     *)
(* LiveResponses, which has a response for every way an attempt can end.   *)
(***************************************************************************)
LiveResponses ==
  EnvelopeResponses \cup SignedResponses \cup NonStringResponses

shapeResolvesLive(p) == shapeResolvesWith(p, LiveResponses)

LiveStep(p) ==
  \/ analyzeStatisticalQuestion(p)
  \/ generateSqlQueryResolves(p)
  \/ generateSqlQueryRejects(p)
  \/ makeQueryResolves(p)
  \/ makeQueryRejects(p)
  \/ classifierResolves(p)
  \/ classifierRejects(p)
  \/ shapeResolvesLive(p)
  \/ shapeRejects(p)

LiveNext == LiveStep(1)

FairSpec == Init /\ [][LiveNext]_vars /\ WF_vars(LiveNext)

(***************************************************************************)
(* Two invocations running at once: at every await point either of them    *)
(* may be the one whose call settles next.  The shape call answers with    *)
(* unparseable text, a pie chart or a waterfall chart.                     *)
(***************************************************************************)
ConcResponses ==
  {UnparsedContent,
   Object(PlainInterpretation, "pie_chart",
          ResponseData(Array(<<Str("Cash"), Str("Card")>>), NotArray,
                       Array(<<Num(5), Num(0)>>), NoColors, NoText)),
   Object(PlainInterpretation, "waterfall_chart",
          ResponseData(NotArray,
                       Array(<<Str("Start"), Str("Revenue"), Str("Net Total")>>),
                       Array(<<Num(0), Num(5), Num(5)>>), NoColors, NoText))}

shapeResolvesConc(p) == shapeResolvesWith(p, ConcResponses)

ConcStep(p) ==
  \/ analyzeStatisticalQuestion(p)
  \/ generateSqlQueryResolves(p)
  \/ generateSqlQueryRejects(p)
  \/ makeQueryResolves(p)
  \/ makeQueryRejects(p)
  \/ classifierResolves(p)
  \/ classifierRejects(p)
  \/ shapeResolvesConc(p)
  \/ shapeRejects(p)

ConcNext == \E p \in Procs : ConcStep(p)

ConcSpec == Init /\ [][ConcNext]_vars

(***************************************************************************)
(* One invocation taken up at a shape call: attempt n of the loop is       *)
(* awaiting the model, which will resolve the call with a response or      *)
(* reject it.  What the call settles with is fixed beforehand in inflight, *)
(* so that the outcome of the attempt can be held against it.              *)
(***************************************************************************)
Resolved(response) ==
  [kind |-> "resolved", response |-> response, message |-> <<>>]

Rejected(message) ==
  [kind |-> "rejected", response |-> UnparsedContent, message |-> message]

Settlements ==
  {Resolved(r) : r \in Responses} \cup {Rejected(m) : m \in ErrorMessages}

\* the chart types the classifier step can leave in chartType
AttemptTypes == {TextToLowerCase(Trim(t)) : t \in ChartTypeTexts}

\* the log of an invocation whose attempts 0..n-1 failed, awaiting attempt n
AttemptLog(n, type) ==
  <<Settle(<<Call("synthesizer", 0, "", "")>>, "ok", <<>>)[1],
    Settle(<<Call("database", 0, "", "")>>, "ok", <<>>)[1],
    Settle(<<Call("classifier", 0, "", "")>>, "ok", <<>>)[1]>>
  \o [k \in 1..n |-> Settle(<<ShapeCall(k - 1, type)>>, "failed", <<>>)[1]]
  \o <<ShapeCall(n, type)>>

AttemptInit ==
  \E n \in 0..(maxRetries - 1), type \in AttemptTypes, s \in Settlements :
    /\ pc = [p \in Procs |-> IF p = 1 THEN "awaitShape" ELSE "idle"]
    /\ userQuestion =
         [p \in Procs |->
            IF p = 1 THEN <<" ", "Invoices", "by", "method?", " ">> ELSE <<>>]
    /\ sqlQuery = [p \in Procs |-> IF p = 1 THEN <<"select", "1">> ELSE <<>>]
    /\ rowCount = [p \in Procs |-> IF p = 1 THEN MaxRows ELSE 0]
    /\ chartType = [p \in Procs |-> IF p = 1 THEN type ELSE <<>>]
    /\ currentRetry = [p \in Procs |-> IF p = 1 THEN n ELSE 0]
    /\ validResponse = [p \in Procs |-> Null]
    /\ result = [p \in Procs |-> Null]
    /\ rejected = [p \in Procs |-> FALSE]
    /\ calls = [p \in Procs |-> IF p = 1 THEN AttemptLog(n, type) ELSE <<>>]
    /\ inflight = [p \in Procs |-> IF p = 1 THEN s ELSE Null]
    /\ mq = [pc |-> "idle", query |-> NotAString, poolQueries |-> 0,
             driverError |-> Null, outcome |-> Null]
    /\ chat = ChatStarted
    /\ inv = InvoicesStarted
    /\ gi = ListingIdle

\* const response = await openai.responses.create(...) and the rest of the
\* loop body
attemptResolves(p) ==
  /\ inflight[p] # Null
  /\ inflight[p].kind = "resolved"
  /\ shapeResolvesWith(p, {inflight[p].response})

\* the awaited call rejects: catch (error) { currentRetry++ }
attemptRejects(p) ==
  /\ inflight[p] # Null
  /\ inflight[p].kind = "rejected"
  /\ shapeRejects(p)

AttemptNext == attemptResolves(1) \/ attemptRejects(1)

AttemptSpec == AttemptInit /\ [][AttemptNext]_vars

(***************************************************************************)
(* The chat server (src/unnamed/part_009).  chatSessions maps a session id *)
(* to a session object; a handler keeps the object it looked up across its *)
(* await.  history[s] and stale[s] are the fields of the object created    *)
(* under id s, which outlives its entry in the map; stale[s] says that     *)
(* now - updatedAt exceeds MAX_SESSION_AGE.  A history entry carries its   *)
(* role and the request whose question it is, or answers.                  *)
(***************************************************************************)
Entry(role, m) == [role |-> role, content |-> m]

\* POST /session
postSession ==
  /\ \E s \in Sessions \ chat.created :
       chat' = [chat EXCEPT !.created = @ \cup {s},
                            !.chatSessions = @ \cup {s},
                            !.history[s] = <<>>,
                            !.stale[s] = FALSE]
  /\ UNCHANGED <<pipeline, mq, inv, gi>>

\* POST /message/:sessionId up to its await
postMessage(m) ==
  /\ chat.handler[m].pc = "idle"
  /\ \E s \in Sessions :
       IF s \notin chat.chatSessions
       THEN chat' = [chat EXCEPT !.handler[m].pc = "done",
                                 !.handler[m].status = 404]
       ELSE chat' = [chat EXCEPT
                       !.history[s] = Append(@, Entry("user", m)),
                       !.handler[m] = [pc |-> "awaiting", session |-> s,
                                       status |-> 0]]
  /\ UNCHANGED <<pipeline, mq, inv, gi>>

\* POST /message/:sessionId after its await: analyzeStatisticalQuestion
\* has resolved
messageResumes(m) ==
  /\ chat.handler[m].pc = "awaiting"
  /\ LET s == chat.handler[m].session IN
       chat' = [chat EXCEPT
                  !.history[s] = Append(@, Entry("system", m)),
                  !.stale[s] = FALSE,
                  !.chatSessions = @ \cup {s},
                  !.handler[m].pc = "done",
                  !.handler[m].status = 200]
  /\ UNCHANGED <<pipeline, mq, inv, gi>>

\* DELETE /session/:id on a session of the map (404 otherwise)
deleteSession ==
  /\ \E s \in chat.chatSessions :
       chat' = [chat EXCEPT !.history[s] = <<>>,
                            !.stale[s] = FALSE,
                            !.chatSessions = @ \cup {s}]
  /\ UNCHANGED <<pipeline, mq, inv, gi>>

\* more than MAX_SESSION_AGE goes by without an update of any session; an
\* analysis takes far less than that, so none is awaited meanwhile
sessionsAge ==
  /\ \E s \in chat.created : ~chat.stale[s]
  /\ \A m \in Requests : chat.handler[m].pc # "awaiting"
  /\ chat' = [chat EXCEPT !.stale = [s \in Sessions |-> s \in chat.created]]
  /\ UNCHANGED <<pipeline, mq, inv, gi>>

\* the setInterval callback
cleanup ==
  /\ \E s \in chat.chatSessions : chat.stale[s]
  /\ chat' = [chat EXCEPT
                 !.chatSessions = {s \in @ : ~chat.stale[s]}]
  /\ UNCHANGED <<pipeline, mq, inv, gi>>

ChatNext ==
  \/ postSession
  \/ \E m \in Requests : postMessage(m)
  \/ \E m \in Requests : messageResumes(m)
  \/ deleteSession
  \/ sessionsAge
  \/ cleanup

ChatSpec == Init /\ [][ChatNext]_vars

(***************************************************************************)
(* The invoice module (src/unnamed/part_007) and createCustomer: calls     *)
(* made one after the other on the shared pool.  A pool client is one      *)
(* database connection; what it writes inside an open transaction is       *)
(* pending until COMMIT and discarded by ROLLBACK or by the loss of the    *)
(* connection, and what it writes outside a transaction is stored at once. *)
(***************************************************************************)
\* calls made in one behaviour, and items of one invoice
MaxOps == 2
MaxItems == 2

\* the ?? 0 of the optional amounts
OrZero(amount) == IF amount.missing THEN 0 ELSE amount.cents

\* 100 * 2^59 * d - c * 2^59, where d is the binary64 number that the
\* amount of c cents (the decimal c / 100) is held as: the error of the
\* representation, in units of 2^-59 / 100.  Multiples of 50 cents are exact.
BinaryError(c) ==
  CASE c \in {0, 50, 100, 150, 200, 250} -> 0
    [] c = 1 -> 12
    [] c \in {51, 101, 151} -> 512
    [] c \in {49, 99, 149, 199} -> 0 - 512
    [] c = 201 -> 0 - 12288

\* Math.abs(calculatedTotal - total) > 0.01 on binary64 numbers: decided by
\* the cents when they differ by 0 or by 2 and more; the difference of two
\* amounts one cent apart is computed without rounding, and exceeds the
\* binary64 0.01 by BinaryError(larger) - BinaryError(smaller)
\* - BinaryError(1) units
ExceedsEpsilon(calculated, total) ==
  LET larger == IF calculated > total THEN calculated ELSE total
      smaller == IF calculated > total THEN total ELSE calculated
  IN  IF larger - smaller >= 2 THEN TRUE
      ELSE IF larger = smaller THEN FALSE
      ELSE BinaryError(larger) - BinaryError(smaller) - BinaryError(1) > 0

\* validateInvoiceData: the message of the InvoiceError it throws, "" when
\* it returns.  calculatedTotal is in cents; the four amounts it is made of
\* are multiples of 50 cents in the inputs, which binary64 adds and
\* subtracts without rounding.  The messages leave the amounts and the item
\* number out.
validateInvoiceData(data) ==
  LET calculatedTotal ==
        data.subtotal.cents - OrZero(data.discount) + OrZero(data.tax)
          + OrZero(data.shipping)
  IN
  IF ~data.invoice_number THEN "Invoice number is required"
  ELSE IF ~data.invoice_date THEN "Invoice date is required"
  ELSE IF data.customer_id = 0 \/ data.customer_id <= 0
    THEN "Valid customer ID is required"
  ELSE IF data.subtotal.cents < 0 THEN "Subtotal cannot be negative"
  ELSE IF OrZero(data.discount) < 0 THEN "Discount cannot be negative"
  ELSE IF OrZero(data.tax) < 0 THEN "Tax cannot be negative"
  ELSE IF OrZero(data.shipping) < 0 THEN "Shipping cannot be negative"
  ELSE IF data.total.cents < 0 THEN "Total cannot be negative"
  ELSE IF ExceedsEpsilon(calculatedTotal, data.total.cents)
    THEN "Total amount does not match calculated total"
  ELSE IF Len(data.items) = 0 THEN "At least one invoice item is required"
  ELSE IF \E i \in 1..Len(data.items) :
            \/ ~data.items[i].description
            \/ data.items[i].quantity <= 0
            \/ data.items[i].unit_price < 0
    THEN "Item is not valid"
  ELSE ""

\* validateCustomerData: the message of the CustomerError it throws, "" when
\* it returns
validateCustomerData(name) ==
  IF name = <<>> \/ Trim(name) = <<>> THEN "Customer name is required" ELSE ""

\* the data argument of uploadInvoice: invoices of customer 1 that differ in
\* their amounts only, and an invoice of 1.00 with other fields varied
InvoiceInputs ==
  {NewInvoiceData(TRUE, TRUE, 1, Amount(subtotal), discount, tax, shipping,
                  Amount(total), <<Item(TRUE, 1, 5)>>) :
     subtotal \in {100, 200}, discount \in {Missing, Amount(50)},
     tax \in {Missing, Amount(50)}, shipping \in {Missing, Amount(0)},
     total \in {99, 100, 101, 150, 199, 200, 201}}
  \cup {NewInvoiceData(number, date, 1, Amount(100), Missing, Missing, Missing,
                  Amount(100), <<Item(TRUE, 1, 5)>>) :
     number \in BOOLEAN, date \in BOOLEAN}
  \cup {NewInvoiceData(TRUE, TRUE, customer, Amount(100), Missing, Missing,
                       Missing, Amount(100), items) :
          customer \in {0 - 1, 0, 1, 2},
          items \in {[i \in 1..n |-> Item(TRUE, 1, 5)] : n \in 0..MaxItems}}
  \cup {NewInvoiceData(TRUE, TRUE, 1, Amount(100), Missing, Missing,
                       Missing, Amount(100), <<Item(TRUE, 1, 5), item>>) :
          item \in {Item(FALSE, 1, 5), Item(TRUE, 0, 5),
                    Item(TRUE, 1, 0 - 1)}}
  \cup {NewInvoiceData(TRUE, TRUE, 1, Amount(subtotal), discount, tax,
                       shipping, Amount(total), <<Item(TRUE, 1, 5)>>) :
          subtotal \in {0 - 50, 100},
          discount \in {Missing, Amount(0 - 50)},
          tax \in {Missing, Amount(0 - 50)},
          shipping \in {Missing, Amount(0 - 50)},
          total \in {0 - 1, 100}}

\* a write of the client, pending inside its transaction and stored without;
\* a row is of a table, written by a call, and the n-th item of its invoice
Write(r, row) ==
  IF r.inTxn THEN [r EXCEPT !.pending = @ \cup {row}]
  ELSE [r EXCEPT !.stored = @ \cup {row}]

\* the call settles
Exit(r, outcome, thrown, message) ==
  [r EXCEPT !.pc = "done", !.outcome = outcome, !.thrown = thrown,
            !.message = message]

\* client.release() of a finally block
Release(r) == [r EXCEPT !.releases = @ + 1, !.checkedOut = @ - 1]

\* a throw inside the try block of uploadInvoice: the catch block starts and
\* awaits its ROLLBACK
Catch(r, caught, message, cause) ==
  [r EXCEPT !.pc = "rollback", !.caught = caught, !.message = message,
            !.cause = cause]

\* a new call starts
Called(op, data, name) ==
  [inv EXCEPT !.op = op, !.ops = @ + 1, !.data = data, !.name = name,
              !.before = inv.stored, !.inserted = 0, !.caught = "",
              !.cause = "", !.outcome = "", !.thrown = "", !.message = "",
              !.connects = 0, !.releases = 0]

\* uploadInvoice up to its await of pool.connect()
uploadInvoice(data) ==
  /\ inv.pc \in {"idle", "done"}
  /\ inv.ops < MaxOps
  /\ LET message == validateInvoiceData(data)
         r == Called("uploadInvoice", data, <<>>)
     IN  inv' = IF message # ""
                THEN Exit([r EXCEPT !.cause = "validation"], "rejected",
                          "InvoiceError", message)
                ELSE [r EXCEPT !.pc = "connect"]
  /\ UNCHANGED <<pipeline, mq, chat, gi>>

\* createCustomer up to its await of pool.connect()
createCustomer(name) ==
  /\ inv.pc \in {"idle", "done"}
  /\ inv.ops < MaxOps
  /\ LET message == validateCustomerData(name)
         r == Called("createCustomer", InvoicesStarted.data, name)
     IN  inv' = IF message # ""
                THEN Exit([r EXCEPT !.cause = "validation"], "rejected",
                          "CustomerError", message)
                ELSE [r EXCEPT !.pc = "connect"]
  /\ UNCHANGED <<pipeline, mq, chat, gi>>

\* pool.connect() resolves with a client, which has no transaction open
connectResolves ==
  /\ inv.pc = "connect"
  /\ inv' = [inv EXCEPT
               !.pc = IF inv.op = "uploadInvoice" THEN "customerCheck"
                      ELSE "insertCustomer",
               !.connects = @ + 1, !.checkedOut = @ + 1,
               !.inTxn = FALSE, !.pending = {}]
  /\ UNCHANGED <<pipeline, mq, chat, gi>>

\* pool.connect() rejects: the call rejects with the error of the pool
connectRejects ==
  /\ inv.pc = "connect"
  /\ inv' = Exit([inv EXCEPT !.cause = "connect"], "rejected", "Error",
                 "connection terminated")
  /\ UNCHANGED <<pipeline, mq, chat, gi>>

\* SELECT id FROM customers WHERE id = $1 resolves
customerCheckResolves ==
  /\ inv.pc = "customerCheck"
  /\ inv' = IF inv.data.customer_id \notin inv.customers
            THEN Catch(inv, "InvoiceError", "Customer does not exist",
                       "customer")
            ELSE [inv EXCEPT !.pc = "begin"]
  /\ UNCHANGED <<pipeline, mq, chat, gi>>

\* BEGIN without effect: every later write is stored at once
beginResolvesAutocommit ==
  /\ inv.pc = "begin"
  /\ inv' = [inv EXCEPT !.pc = "insertInvoice"]
  /\ UNCHANGED <<pipeline, mq, chat, gi>>

\* BEGIN resolves
beginResolves ==
  /\ inv.pc = "begin"
  /\ inv' = [inv EXCEPT !.pc = "insertInvoice", !.inTxn = TRUE]
  /\ UNCHANGED <<pipeline, mq, chat, gi>>

\* INSERT INTO invoices resolves, with the row or with rowCount 0
insertInvoiceResolves ==
  /\ inv.pc = "insertInvoice"
  /\ \E rows \in {0, 1} :
       inv' = IF rows = 0
              THEN Catch(inv, "InvoiceError", "Failed to insert invoice",
                         "insertInvoice")
              ELSE [Write(inv, [table |-> "invoices", call |-> inv.ops, n |-> 0])
                      EXCEPT !.pc = "insertItem"]
  /\ UNCHANGED <<pipeline, mq, chat, gi>>

\* INSERT INTO invoice_items of one pass of the loop resolves; after the
\* last item the call awaits COMMIT
insertItemResolves ==
  /\ inv.pc = "insertItem"
  /\ \E rows \in {0, 1} :
       inv' = IF rows = 0
              THEN Catch(inv, "InvoiceError", "Failed to insert invoice item",
                         "insertItem")
              ELSE [Write(inv, [table |-> "invoice_items", call |-> inv.ops,
                                 n |-> inv.inserted + 1])
                      EXCEPT !.inserted = @ + 1,
                             !.pc = IF inv.inserted + 1 = Len(inv.data.items)
                                    THEN "commit" ELSE "insertItem"]
  /\ UNCHANGED <<pipeline, mq, chat, gi>>

\* COMMIT resolves: return, then finally
commitResolves ==
  /\ inv.pc = "commit"
  /\ inv' = Release(Exit([inv EXCEPT !.stored = @ \cup inv.pending,
                                     !.pending = {}, !.inTxn = FALSE],
                         "resolved", "", ""))
  /\ UNCHANGED <<pipeline, mq, chat, gi>>

\* a query of the try block rejects before COMMIT: nothing is written by it
queryRejects ==
  /\ inv.pc \in {"customerCheck", "begin", "insertInvoice", "insertItem"}
  /\ inv.op = "uploadInvoice"
  /\ \E error \in {"23503 invoices_customer_id_fkey",
                    "connection terminated"} :
       inv' = Catch(inv, error, "", inv.pc)
  /\ UNCHANGED <<pipeline, mq, chat, gi>>

\* COMMIT rejects: the transaction was made durable before the error
\* reached the client, or it was not
commitRejects ==
  /\ inv.pc = "commit"
  /\ \E error \in {"23503 invoices_customer_id_fkey",
                    "connection terminated"}, durable \in BOOLEAN :
       inv' = Catch(IF durable
                    THEN [inv EXCEPT !.stored = @ \cup inv.pending,
                                     !.pending = {}, !.inTxn = FALSE]
                    ELSE inv,
                    error, "", "commit")
  /\ UNCHANGED <<pipeline, mq, chat, gi>>

\* ROLLBACK resolves: the open transaction, if any, is discarded; the catch
\* block throws the InvoiceError it caught or made, then finally
rollbackResolves ==
  /\ inv.pc = "rollback"
  /\ inv' = Release(Exit(
              [inv EXCEPT !.pending = {}, !.inTxn = FALSE],
              "rejected", "InvoiceError",
              IF inv.caught = "InvoiceError" THEN inv.message
              ELSE IF inv.caught = "23503 invoices_customer_id_fkey"
                THEN "Customer not found. Please create this customer first."
              ELSE "Invoice insertion failed"))
  /\ UNCHANGED <<pipeline, mq, chat, gi>>

\* ROLLBACK rejects and the client is not released
rollbackRejectsNoFinally ==
  /\ inv.pc = "rollback"
  /\ inv' = Exit([inv EXCEPT !.pending = {}, !.inTxn = FALSE],
                 "rejected", "Error", "connection terminated")
  /\ UNCHANGED <<pipeline, mq, chat, gi>>

\* ROLLBACK rejects, the connection being lost, and the server discards the
\* open transaction; the error of the driver leaves the catch block, then
\* finally
rollbackRejects ==
  /\ inv.pc = "rollback"
  /\ inv' = Release(Exit([inv EXCEPT !.pending = {}, !.inTxn = FALSE],
                         "rejected", "Error", "connection terminated"))
  /\ UNCHANGED <<pipeline, mq, chat, gi>>

\* INSERT INTO customers resolves, with the row or with rowCount 0; then
\* finally
insertCustomerResolves ==
  /\ inv.pc = "insertCustomer"
  /\ \E rows \in {0, 1} :
       inv' = IF rows = 0
              THEN Release(Exit([inv EXCEPT !.cause = "insertCustomer"],
                                "rejected", "CustomerError",
                                "Failed to create customer"))
              ELSE Release(Exit([inv EXCEPT
                                   !.customers =
                                     @ \cup {Cardinality(inv.customers) + 1}],
                                "resolved", "", ""))
  /\ UNCHANGED <<pipeline, mq, chat, gi>>

\* INSERT INTO customers rejects: wrapped in a CustomerError, then finally
insertCustomerRejects ==
  /\ inv.pc = "insertCustomer"
  /\ inv' = Release(Exit([inv EXCEPT !.cause = "insertCustomer"], "rejected",
                         "CustomerError", "Customer creation failed"))
  /\ UNCHANGED <<pipeline, mq, chat, gi>>

InvoiceNext ==
  \/ \E data \in InvoiceInputs : uploadInvoice(data)
  \/ \E name \in {<<>>, <<" ">>, <<"Acme">>} : createCustomer(name)
  \/ connectResolves
  \/ connectRejects
  \/ customerCheckResolves
  \/ beginResolves
  \/ insertInvoiceResolves
  \/ insertItemResolves
  \/ commitResolves
  \/ queryRejects
  \/ commitRejects
  \/ rollbackResolves
  \/ rollbackRejects
  \/ insertCustomerResolves
  \/ insertCustomerRejects

InvoiceSpec == Init /\ [][InvoiceNext]_vars

(***************************************************************************)
(* getInvoices (src/unnamed/part_007): the count query and the data query  *)
(* it builds are lists of clauses; the placeholders and the parameter list *)
(* are left out.  The filters on columns of invoices other than            *)
(* invoiceNumber add conditions on i. columns in the same way as it does.  *)
(***************************************************************************)
\* mapSortFieldToColumn, with its fallback for a field it does not know
mapSortFieldToColumn(field) ==
  CASE field = "id" -> "i.id"
    [] field = "customer_name" -> "c.name"
    [] field = "total" -> "i.total"
    [] OTHER -> "i.id"

CustomerColumns == ", c.id as c_id, c.name as c_name, c.email as c_email"
JoinCustomers == "LEFT JOIN customers c ON i.customer_id = c.id"
SearchCondition ==
  "(i.invoice_number ILIKE OR i.notes ILIKE OR c.name ILIKE)"

\* the condition of "Add joins if needed"
joinNeeded(params) ==
  \/ params.includeCustomer
  \/ (params.hasFilter /\ params.customerName)
  \/ \E k \in 1..Len(params.sort) : params.sort[k].field = "customer_name"

\* whereConditions and the WHERE clause added to both queries
whereClause(params) ==
  LET whereConditions ==
        IF ~params.hasFilter THEN <<>>
        ELSE (IF params.invoiceNumber THEN <<"i.invoice_number ILIKE">>
              ELSE <<>>)
             \o (IF params.customerName THEN <<"c.name ILIKE">> ELSE <<>>)
             \o (IF params.searchTerm THEN <<SearchCondition>> ELSE <<>>)
  IN  IF Len(whereConditions) > 0
      THEN <<"WHERE">> \o whereConditions
      ELSE <<>>

countQuery(params) ==
  <<"SELECT COUNT(*) as total", "FROM invoices i">>
  \o (IF joinNeeded(params) THEN <<JoinCustomers>> ELSE <<>>)
  \o whereClause(params)

dataQuery(params) ==
  <<"SELECT i.*">>
  \o (IF params.includeCustomer THEN <<CustomerColumns>> ELSE <<>>)
  \o <<"FROM invoices i">>
  \o (IF joinNeeded(params) THEN <<JoinCustomers>> ELSE <<>>)
  \o whereClause(params)
  \o <<"ORDER BY">>
  \o (IF Len(params.sort) > 0
      THEN [k \in 1..Len(params.sort) |->
              mapSortFieldToColumn(params.sort[k].field) \o " "
                \o ToUpperCase(params.sort[k].direction)]
      ELSE <<"i.invoice_date DESC">>)
  \o <<"LIMIT OFFSET">>

\* the clauses that name a column of the alias c
NamesCustomers(clause) ==
  clause \in {CustomerColumns, "c.name ILIKE", SearchCondition,
              "c.name ASC", "c.name DESC"}

\* the database can run the query: the alias c it names is in its FROM
Runs(query) ==
  (\E k \in 1..Len(query) : NamesCustomers(query[k]))
    => \E k \in 1..Len(query) : query[k] = JoinCustomers

\* the params argument of getInvoices
ParamsInputs ==
  {GetInvoicesParams(page, pageSize, sort, hasFilter, invoiceNumber,
                     customerName, searchTerm, includeCustomer, includeItems) :
     page \in {0, 1}, pageSize \in {1, 101},
     sort \in {<<>>,
               <<[field |-> "total", direction |-> "desc"]>>,
               <<[field |-> "customer_name", direction |-> "asc"]>>,
               <<[field |-> "id", direction |-> "asc"],
                 [field |-> "customer_name", direction |-> "desc"]>>,
               <<[field |-> "due", direction |-> "asc"]>>},
     hasFilter \in BOOLEAN, invoiceNumber \in BOOLEAN,
     customerName \in BOOLEAN, searchTerm \in BOOLEAN,
     includeCustomer \in BOOLEAN, includeItems \in BOOLEAN}

\* getInvoices up to its await of the count query
getInvoices(params) ==
  /\ gi.pc = "idle"
  /\ gi' = IF params.page < 1
           THEN [gi EXCEPT !.pc = "done", !.params = params,
                           !.outcome = "rejected",
                           !.error = "Page must be greater than or equal to 1"]
           ELSE IF params.pageSize < 1 \/ params.pageSize > 100
           THEN [gi EXCEPT !.pc = "done", !.params = params,
                           !.outcome = "rejected",
                           !.error = "Page size must be between 1 and 100"]
           ELSE [gi EXCEPT !.pc = "awaitCount", !.params = params,
                           !.countQuery = countQuery(params),
                           !.dataQuery = dataQuery(params)]
  /\ UNCHANGED <<pipeline, mq, chat, inv>>

\* pool.query(countQuery, queryParams) resolves
countResolves ==
  /\ gi.pc = "awaitCount"
  /\ Runs(gi.countQuery)
  /\ gi' = [gi EXCEPT !.pc = "awaitData"]
  /\ UNCHANGED <<pipeline, mq, chat, inv>>

\* pool.query(dataQuery, ...) resolves with its rows; the items query
\* follows when items are included and there are rows
dataResolves ==
  /\ gi.pc = "awaitData"
  /\ Runs(gi.dataQuery)
  /\ \E rows \in 0..1 :
       gi' = IF gi.params.includeItems /\ rows > 0
             THEN [gi EXCEPT !.pc = "awaitItems", !.rows = rows]
             ELSE [gi EXCEPT !.pc = "done", !.outcome = "resolved",
                             !.rows = rows]
  /\ UNCHANGED <<pipeline, mq, chat, inv>>

\* pool.query(itemsQuery, [invoiceIds]) resolves
itemsResolve ==
  /\ gi.pc = "awaitItems"
  /\ gi' = [gi EXCEPT !.pc = "done", !.outcome = "resolved"]
  /\ UNCHANGED <<pipeline, mq, chat, inv>>

\* one of the queries rejects, for a failure of the driver or because the
\* database cannot run it: wrapped by the catch block
listingQueryRejects ==
  /\ gi.pc \in {"awaitCount", "awaitData", "awaitItems"}
  /\ gi' = [gi EXCEPT !.pc = "done", !.outcome = "rejected",
                      !.error = "Failed to retrieve invoices"]
  /\ UNCHANGED <<pipeline, mq, chat, inv>>

ListingNext ==
  \/ \E params \in ParamsInputs : getInvoices(params)
  \/ countResolves
  \/ dataResolves
  \/ itemsResolve
  \/ listingQueryRejects

ListingSpec == Init /\ [][ListingNext]_vars

(***************************************************************************)
(* Properties.                                                             *)
(***************************************************************************)
Done(p) == pc[p] = "done"

Stages(p) == [i \in 1..Len(calls[p]) |-> calls[p][i].stage]

CountStage(p, stage) == CountCalls(calls[p], stage)

\* the invocation stopped at its last call, which ended with this outcome
EndedAt(p, stage, outcome) ==
  /\ Done(p)
  /\ calls[p] # <<>>
  /\ calls[p][Len(calls[p])].stage = stage
  /\ calls[p][Len(calls[p])].outcome = outcome

LastMessage(p) == calls[p][Len(calls[p])].message

OnlyWhitespace(text) == \A i \in 1..Len(text) : text[i] = " "

ErrorPie == [type |-> "pie_chart",
             data |-> [labels |-> <<Str("Error")>>, values |-> <<100>>,
                       colors |-> NoColors]]

\* C1: every result returned by analyzeStatisticalQuestion has labels and
\* values of the same length when it is a pie chart, and categories and
\* values of the same length, at least 2, when it is a waterfall chart.
C1_StructuralInvariant ==
  \A p \in Procs :
    result[p] # Null =>
      LET st == result[p].statistics IN
      /\ st.type = "pie_chart" =>
            Len(st.data.labels) = Len(st.data.values)
      /\ st.type = "waterfall_chart" =>
            /\ Len(st.data.categories) = Len(st.data.values)
            /\ Len(st.data.values) >= 2

\* a returned waterfall chart whose categories were padded by the repair
C1_Witness ==
  /\ Done(1) /\ validResponse[1] # Null
  /\ result[1].statistics.type = "waterfall_chart"
  /\ result[1].statistics.data.categories[2] = Str("Item 1")

\* C2: analyzeStatisticalQuestion never rejects: once it has finished,
\* whatever failed, the caller holds a value with an interpretation text
\* and a statistics object.
C2_NeverThrows ==
  \A p \in Procs :
    /\ ~rejected[p]
    /\ Done(p) =>
         /\ result[p] # Null
         /\ DOMAIN result[p] = {"interpretation", "statistics"}
         /\ result[p].interpretation \in Seq(STRING)
         /\ DOMAIN result[p].statistics = {"type", "data"}

\* the classifier call, which no try block surrounds, has failed
C2_Witness ==
  /\ EndedAt(1, "classifier", "failed")
  /\ result[1] # Null

\* the shape loop calls the model at most 3 times, exactly 3 times when it
\* ends in the fallback, and never again after an accepted attempt
ShapeBudget ==
  \A p \in Procs :
    /\ CountStage(p, "shape") <= 3
    /\ EndedAt(p, "shape", "failed") => CountStage(p, "shape") = 3
    /\ \A i \in 1..Len(calls[p]) :
         (calls[p][i].stage = "shape" /\ calls[p][i].outcome = "ok")
           => i = Len(calls[p])

\* C3: provided every external call returns or fails, the invocation
\* terminates, and its shape loop stays within the budget of 3 model calls:
\* exactly 3 when every attempt failed, none after an accepted attempt.
C3_Termination == []ShapeBudget /\ <>Done(1)

C3_Witness ==
  /\ EndedAt(1, "shape", "failed")
  /\ CountStage(1, "shape") = 3

\* C4: when every shape attempt failed, the result is the fallback, fixed
\* by the classified chart type and the row count alone.
C4_Fallback ==
  \A p \in Procs :
    EndedAt(p, "shape", "failed") =>
      /\ result[p].interpretation =
           <<"Unable to generate a detailed analysis, but here's a simple overview of the data.">>
      /\ IF chartType[p] = <<"waterfall_chart">>
         THEN /\ result[p].statistics.type = "waterfall_chart"
              /\ result[p].statistics.data.categories =
                   <<Str("Start"), Str("Change"), Str("End")>>
              /\ result[p].statistics.data.values =
                   <<0, rowCount[p], rowCount[p]>>
         ELSE /\ result[p].statistics.type = "pie_chart"
              /\ result[p].statistics.data.labels = <<Str("Data Points")>>
              /\ result[p].statistics.data.values = <<rowCount[p]>>

C4_Witness ==
  /\ EndedAt(1, "shape", "failed")
  /\ chartType[1] = <<"waterfall_chart">>
  /\ rowCount[1] = 2

\* C5: a result accepted on attempt 2, after attempts 0 and 1 failed, has
\* exactly 3 data points.
C5_ThreePoints ==
  \A p \in Procs :
    (EndedAt(p, "shape", "ok") /\ CountStage(p, "shape") = 3) =>
      /\ Len(result[p].statistics.data.values) = 3
      /\ IF result[p].statistics.type = "pie_chart"
         THEN Len(result[p].statistics.data.labels) = 3
         ELSE Len(result[p].statistics.data.categories) = 3

\* the invocation stopped on one of the three hard failures
HardFailure(p) ==
  \/ Done(p) /\ calls[p] = <<>>
  \/ EndedAt(p, "synthesizer", "failed")
  \/ EndedAt(p, "database", "failed")

\* C6: the error-shaped result (the pie chart labelled Error) is returned
\* only for a blank question, a synthesis failure or a query failure.
C6_ErrorOnlyOnHardFailure ==
  \A p \in Procs :
    (Done(p) /\ result[p] # Null /\ result[p].statistics = ErrorPie)
      => HardFailure(p)

\* C7: the external calls of an invocation are, in this order, one
\* synthesizer call, one database query, one classifier call and the shape
\* calls, each made only after the calls before it succeeded (a shape call
\* after the first follows a failed shape attempt).
C7_StageOrder ==
  \A p \in Procs :
    /\ \A i \in 1..Len(calls[p]) :
         calls[p][i].stage =
           (IF i = 1 THEN "synthesizer"
            ELSE IF i = 2 THEN "database"
            ELSE IF i = 3 THEN "classifier" ELSE "shape")
    /\ \A i \in 1..(Len(calls[p]) - 1) :
         calls[p][i].outcome = (IF calls[p][i].stage = "shape"
                                THEN "failed" ELSE "ok")

C7_Witness ==
  /\ Done(1)
  /\ Stages(1) = <<"synthesizer", "database", "classifier", "shape", "shape">>

\* C8: a question that is empty or only whitespace gets the EmptyQuestion
\* error result, and no model call or database query is made.
C8_BlankQuestion ==
  \A p \in Procs :
    (Done(p) /\ OnlyWhitespace(userQuestion[p])) =>
      /\ calls[p] = <<>>
      /\ result[p].interpretation =
           <<"Invalid", "question: Question must be a non-empty string">>
      /\ result[p].statistics = ErrorPie

C8_Witness ==
  /\ Done(1)
  /\ userQuestion[1] = <<" ", " ">>

\* C9: when the query returns no rows the result is the canned No Data
\* pie chart and the model was called once, for synthesis.
C9_EmptyResultSet ==
  \A p \in Procs :
    (Done(p) /\ rowCount[p] = 0
       /\ \E i \in 1..Len(calls[p]) :
            calls[p][i].stage = "database" /\ calls[p][i].outcome = "ok") =>
      /\ result[p].interpretation = <<"No data available for analysis.">>
      /\ result[p].statistics.type = "pie_chart"
      /\ result[p].statistics.data.labels = <<Str("No Data")>>
      /\ result[p].statistics.data.values = <<100>>
      /\ CountStage(p, "synthesizer") = 1
      /\ CountStage(p, "classifier") = 0
      /\ CountStage(p, "shape") = 0

C9_Witness ==
  /\ EndedAt(1, "database", "ok")
  /\ rowCount[1] = 0
  /\ result[1] # Null

\* C10: each hard failure returns the same statistics, the pie chart with
\* labels [Error] and values [100], and an interpretation that is the
\* message of the failure.
C10_UniformError ==
  \A p \in Procs :
    /\ (Done(p) /\ calls[p] = <<>>) =>
         /\ result[p].statistics = ErrorPie
         /\ result[p].interpretation =
              <<"Invalid", "question: Question must be a non-empty string">>
    /\ EndedAt(p, "synthesizer", "failed") =>
         /\ result[p].statistics = ErrorPie
         /\ result[p].interpretation =
              <<"Analysis failed:", "Failed to generate SQL query:">> \o
              (IF LastMessage(p) = <<>>
               THEN <<"Failed to generate a valid SQL query">>
               ELSE LastMessage(p))
    /\ EndedAt(p, "database", "failed") =>
         /\ result[p].statistics = ErrorPie
         /\ result[p].interpretation =
              <<"Analysis failed:", "Database error:">> \o LastMessage(p)

C10_Witness ==
  /\ EndedAt(1, "database", "failed")
  /\ LastMessage(1) = <<"timeout">>

\* the log has a call of this stage with this outcome
Had(p, stage, outcome) ==
  \E i \in 1..Len(calls[p]) :
    calls[p][i].stage = stage /\ calls[p][i].outcome = outcome

\* C11: when the classifier's answer, trimmed and lower-cased, is not
\* exactly waterfall_chart, the invocation goes on as for a pie chart and
\* does not raise: every shape call carries the pie schema and the pie
\* prompt, and the fallback is the pie fallback.
C11_DefaultsToPie ==
  \A p \in Procs :
    (Had(p, "classifier", "ok") /\ chartType[p] # <<"waterfall_chart">>) =>
      /\ ~rejected[p]
      /\ \A i \in 1..Len(calls[p]) :
           calls[p][i].stage = "shape" =>
             /\ calls[p][i].schema = "simplePieChartSchema"
             /\ calls[p][i].example = "pie_chart"
      /\ EndedAt(p, "shape", "failed") =>
           /\ result[p].statistics.type = "pie_chart"
           /\ result[p].statistics.data.labels = <<Str("Data Points")>>

\* an unrecognized answer, all attempts failed
C11_Witness ==
  /\ EndedAt(1, "shape", "failed")
  /\ chartType[1] = <<"bar_chart">>

\* C12: every pie chart returned by analyzeStatisticalQuestion has only
\* values that are not negative.
C12_PieNonNegative ==
  \A p \in Procs :
    (result[p] # Null /\ result[p].statistics.type = "pie_chart") =>
      \A i \in 1..Len(result[p].statistics.data.values) :
        result[p].statistics.data.values[i] >= 0

\* C13: in every pie chart returned by analyzeStatisticalQuestion, colors,
\* when present, has as many entries as labels.
C13_ColorsParity ==
  \A p \in Procs :
    (/\ result[p] # Null
     /\ result[p].statistics.type = "pie_chart"
     /\ result[p].statistics.data.colors.present) =>
      Len(result[p].statistics.data.colors.items) =
        Len(result[p].statistics.data.labels)

\* SELECT occurs in the text in some letter case
MentionsSelect(text) ==
  \E i \in 1..Len(text) : text[i] \in {"select", "Select", "SELECT"}

\* C14: generateSqlQuery fails when the model call errors or the text has
\* no SELECT, so that the database is only ever queried with a text that
\* has one; a failed synthesis ends the invocation with the
\* synthesis-failed message.
C14_SelectOrFail ==
  \A p \in Procs :
    /\ CountStage(p, "database") > 0 =>
         /\ calls[p][1].outcome = "ok"
         /\ MentionsSelect(sqlQuery[p])
    /\ Had(p, "synthesizer", "ok") => MentionsSelect(sqlQuery[p])
    /\ Had(p, "synthesizer", "failed") =>
         /\ CountStage(p, "database") = 0
         /\ Done(p)
         /\ SubSeq(result[p].interpretation, 1, 2) =
              <<"Analysis failed:", "Failed to generate SQL query:">>

\* the synthesizer answered with a text that has no SELECT
C14_Witness ==
  /\ EndedAt(1, "synthesizer", "failed")
  /\ LastMessage(1) = <<>>

\* C19: every failed attempt advances the attempt index by one and raises
\* nothing; the n-th shape call sends prompt variant n, so the variants go
\* 0, 1, 2 with none skipped or repeated.
C19_VariantsInOrder ==
  \A p \in Procs :
    /\ ~rejected[p]
    /\ currentRetry[p] =
         Cardinality({i \in 1..Len(calls[p]) :
                        calls[p][i].stage = "shape"
                          /\ calls[p][i].outcome = "failed"})
    /\ \A i \in 1..Len(calls[p]) :
         calls[p][i].stage = "shape" =>
           calls[p][i].variant = CountCalls(SubSeq(calls[p], 1, i), "shape") - 1
    /\ Had(p, "shape", "failed") /\ Done(p) =>
         \/ EndedAt(p, "shape", "ok")
         \/ CountStage(p, "shape") = 3

C19_Witness ==
  /\ EndedAt(1, "shape", "failed")
  /\ [i \in 1..3 |-> calls[1][i + 3].variant] = <<0, 1, 2>>

\* C15: a call of makeQuery queries the pool at most once: not at all for
\* an empty or whitespace query, which is rejected as an invalid query,
\* and once otherwise; a driver failure rejects the call with a database
\* error that carries the driver's message, and the pool is not queried
\* again.
C15_OnePoolQuery ==
  LET blank == ~mq.query.isString \/ OnlyWhitespace(mq.query.text) IN
  /\ mq.poolQueries <= 1
  /\ mq.pc # "idle" =>
       IF blank
       THEN /\ mq.poolQueries = 0
            /\ mq.pc = "done"
            /\ mq.outcome.kind = "throw"
            /\ mq.outcome.message[1] = "Invalid"
       ELSE mq.poolQueries = 1
  /\ mq.driverError # Null =>
       /\ mq.pc = "done"
       /\ mq.poolQueries = 1
       /\ mq.outcome.kind = "throw"
       /\ mq.outcome.message = <<"Database error:">> \o mq.driverError.message

\* the driver failed on a query with whitespace around it
C15_Witness ==
  /\ mq.pc = "done"
  /\ mq.driverError # Null
  /\ mq.query.text = <<" ", "select", " ">>

\* everything invocation p holds
Local(p) ==
  <<pc[p], userQuestion[p], sqlQuery[p], rowCount[p], chartType[p],
    currentRetry[p], validResponse[p], result[p], rejected[p], calls[p]>>

\* what invocation p holds is what its own calls made it
OwnRun(p) ==
  /\ currentRetry[p] =
       Cardinality({i \in 1..Len(calls[p]) :
                      calls[p][i].stage = "shape"
                        /\ calls[p][i].outcome = "failed"})
  /\ \A i \in 1..Len(calls[p]) :
       calls[p][i].stage = "shape" =>
         /\ calls[p][i].schema = schema(chartType[p])
         /\ calls[p][i].example = promptExample(chartType[p])
         /\ calls[p][i].variant =
              CountCalls(SubSeq(calls[p], 1, i), "shape") - 1
  /\ EndedAt(p, "shape", "ok") => result[p] = validResponse[p]
  /\ EndedAt(p, "shape", "failed") =>
       /\ CountStage(p, "shape") = maxRetries
       /\ result[p] = fallback(chartType[p], rowCount[p])
  /\ pc[p] = "idle" => calls[p] = <<>> /\ result[p] = Null

\* C16: two invocations running at once are independent: whatever the
\* interleaving at the await points, a step of one invocation changes
\* nothing the other holds (attempt counter, chart type, accepted
\* response, result), and what each holds follows from its own calls.
C16_Independent ==
  /\ [](\A p \in Procs : OwnRun(p))
  /\ [][\E p \in Procs : \A q \in Procs \ {p} : Local(q)' = Local(q)]_vars

\* both invocations finished with different chart types, the second one
\* having failed an attempt while the first was still running
C16_Witness ==
  /\ Done(1) /\ Done(2)
  /\ chartType[1] = <<"waterfall_chart">>
  /\ chartType[2] = <<"pie_chart">>
  /\ EndedAt(1, "shape", "failed")
  /\ EndedAt(2, "shape", "ok")
  /\ currentRetry[2] = 1

\* the chart of createWaterfallChartErrorResponse
ErrorWaterfall == createWaterfallChartErrorResponse(<<>>).statistics

\* validateResponse returned one of its error responses.  A response that
\* passed has colors (pie) or the three label texts (waterfall), which the
\* error charts lack.
validationFailed(response) ==
  LET validated == validateResponse(response) IN
  /\ validated.kind = "return"
  /\ validated.value.statistics \in {ErrorPie, ErrorWaterfall}

\* validateResponse returned the response, repaired where it repairs
validationPassed(response) ==
  LET validated == validateResponse(response) IN
  /\ validated.kind = "return"
  /\ validated.value.statistics \notin {ErrorPie, ErrorWaterfall}

\* the shape call of invocation p is about to resolve
Attempting(p) ==
  /\ pc[p] = "awaitShape"
  /\ inflight[p] # Null
  /\ inflight[p].kind = "resolved"

\* the step counts the attempt as failed: on to the next attempt or to the
\* fallback
AttemptFails(p) ==
  /\ currentRetry'[p] = currentRetry[p] + 1
  /\ validResponse'[p] = Null
  /\ pc'[p] \in {"awaitShape", "done"}
  /\ pc'[p] = "done" =>
       /\ currentRetry'[p] = maxRetries
       /\ result'[p] = fallback(chartType[p], rowCount[p])

\* the step ends the loop in Success with this value as the result
AttemptSucceeds(p, value) ==
  /\ currentRetry'[p] = currentRetry[p]
  /\ pc'[p] = "done"
  /\ result'[p] = value

\* C17: an attempt whose validation failed is never returned: whenever
\* validateResponse returns an error response, the one of its catch block
\* included, the attempt counts as failed and the loop goes on to the next
\* attempt or to the fallback.
C17_FailedNeverReturned ==
  [][\A p \in Procs :
       (Attempting(p) /\ validationFailed(inflight[p].response)) =>
         AttemptFails(p)]_vars

\* C18: an attempt whose response passes structural validation ends the
\* loop in Success on that attempt with that response as the result,
\* whatever its interpretation says.
C18_ValidAlwaysAccepted ==
  [][\A p \in Procs :
       (Attempting(p) /\ validationPassed(inflight[p].response)) =>
         AttemptSucceeds(p, validateResponse(inflight[p].response).value)]_vars

\* the label (pie) or category (waterfall) array and the values array of
\* the response are arrays of different lengths
UnequalLengths(response) ==
  /\ response.kind = "object"
  /\ response.statistics.present
  /\ response.statistics.data.present
  /\ response.statistics.data.values.isArray
  /\ LET data == response.statistics.data
         names == IF response.statistics.type = "pie_chart"
                  THEN data.labels
                  ELSE data.categories
     IN /\ response.statistics.type \in {"pie_chart", "waterfall_chart"}
        /\ names.isArray
        /\ Len(names.items) # Len(data.values.items)

\* C20: validation requires array-length parity: an attempt whose label or
\* category array and values array differ in length fails validation and
\* is not accepted on that attempt.
C20_LengthParity ==
  [][\A p \in Procs :
       (Attempting(p) /\ UnequalLengths(inflight[p].response)) =>
         AttemptFails(p)]_vars

\* the response carries a names array and a values array for its chart type
HasArrays(response) ==
  /\ response.kind = "object"
  /\ response.statistics.present
  /\ response.statistics.type \in {"pie_chart", "waterfall_chart"}
  /\ response.statistics.data.present
  /\ response.statistics.data.values.isArray
  /\ IF response.statistics.type = "pie_chart"
     THEN response.statistics.data.labels.isArray
     ELSE response.statistics.data.categories.isArray

\* the names array and the values array of such a response
NamesOf(response) ==
  IF response.statistics.type = "pie_chart"
  THEN response.statistics.data.labels.items
  ELSE response.statistics.data.categories.items

ValuesOf(response) == response.statistics.data.values.items

\* the positions of the values that coerce to a number
NumericPositions(response) ==
  {i \in 1..Len(ValuesOf(response)) : ~ValuesOf(response)[i].nan}

\* fewer numerically valid values than the chart type needs
TooFewValid(response) ==
  /\ HasArrays(response)
  /\ Cardinality(NumericPositions(response)) <
       (IF response.statistics.type = "waterfall_chart" THEN 2 ELSE 1)

\* C22: minimum cardinality after filtering: a waterfall response with
\* fewer than 2 numerically valid values, and a pie response with none,
\* makes the whole attempt fail; it is not returned with what is left.
C22_MinimumCardinality ==
  [][\A p \in Procs :
       (Attempting(p) /\ TooFewValid(inflight[p].response)) =>
         AttemptFails(p)]_vars

\* a waterfall with one valid value among three was answered on every
\* attempt and the invocation ended with the fallback
C22_Witness ==
  /\ EndedAt(1, "shape", "failed")
  /\ inflight[1].kind = "resolved"
  /\ TooFewValid(inflight[1].response)
  /\ inflight[1].response.statistics.type = "waterfall_chart"
  /\ Cardinality(NumericPositions(inflight[1].response)) = 1
  /\ Len(ValuesOf(inflight[1].response)) = 3
  /\ result[1] = fallback(chartType[1], rowCount[1])

\* the chart kind the classifier's answer stands for
ChosenKind(p) ==
  IF chartType[p] = <<"waterfall_chart">>
  THEN "waterfall_chart"
  ELSE "pie_chart"

\* C23: whenever the shape loop ends, in Success or in the fallback, the
\* type of the returned statistics is the chart kind the classifier chose,
\* also when the model's response declares the other type.
C23_TypeIsChosenKind ==
  \A p \in Procs :
    (EndedAt(p, "shape", "ok") \/ EndedAt(p, "shape", "failed")) =>
      result[p].statistics.type = ChosenKind(p)

\* the attempt of invocation p was accepted with a response that carried
\* its arrays, and what was returned is not one of the error charts
Repaired(p) ==
  /\ EndedAt(p, "shape", "ok")
  /\ inflight[p] # Null
  /\ inflight[p].kind = "resolved"
  /\ HasArrays(inflight[p].response)
  /\ result[p].statistics \notin {ErrorPie, ErrorWaterfall}

\* the numerically valid positions of the response, ascending
KeptPositions(response) ==
  LET valid == NumericPositions(response) IN
  [k \in 1..Cardinality(valid) |->
     CHOOSE i \in valid : Cardinality({j \in valid : j < i}) = k - 1]

\* the element of the names array at a position, undefined past its end
InputName(response, i) ==
  IF i \in 1..Len(NamesOf(response))
  THEN NamesOf(response)[i]
  ELSE JsUndefined

\* the labels or categories of the result of invocation p
ResultNames(p) ==
  IF result[p].statistics.type = "pie_chart"
  THEN result[p].statistics.data.labels
  ELSE result[p].statistics.data.categories

\* the retained values are the valid values of the response, in order
ValuesRetained(p) ==
  LET response == inflight[p].response
      kept == KeptPositions(response)
  IN result[p].statistics.data.values =
       [k \in 1..Len(kept) |-> ValuesOf(response)[kept[k]].n]

\* C21: partial repair keeps exactly the index pairs whose value coerces to
\* a number: the retained values are the numeric values of the response in
\* their order, and each retained label is the label the response has at
\* the original index of its value.
C21_PairsKept ==
  \A p \in Procs :
    Repaired(p) =>
      LET response == inflight[p].response
          kept == KeptPositions(response)
      IN /\ ValuesRetained(p)
         /\ Len(ResultNames(p)) = Len(kept)
         /\ \A k \in 1..Len(kept) :
              kept[k] \in 1..Len(NamesOf(response)) =>
                ResultNames(p)[k] = NamesOf(response)[kept[k]]

\* a category whose text has "start", or "end" or "total", in some case
MentionsStart(name) == name.t = "string" /\ name.s \in {"Start", "start"}

MentionsEndOrTotal(name) ==
  /\ name.t = "string"
  /\ name.s \in {"End", "Total", "Net Total", "Trend", "Year End"}

\* what the waterfall branch makes of the category at position i of the
\* response when it lands at position k of n, the first value being first
Relabelled(name, i, k, n, first) ==
  LET named == IF name.t \in {"null", "undefined"}
                    \/ (name.t = "string" /\ name.s = "")
               THEN Str("Item " \o ToString(i - 1))
               ELSE name
  IN IF k = 1 /\ first = 0 /\ ~MentionsStart(named) THEN Str("Start")
     ELSE IF k = n /\ ~MentionsEndOrTotal(named) THEN Str("End")
     ELSE named

\* C21 as amended: the retained values are the numeric values of the
\* response in their order; each retained pie label is the label at the
\* original index of its value; each retained waterfall category is the
\* category at that index, or "Item k" when it is missing or falsy, the
\* first then renamed "Start" when its value is 0 and it has no "start",
\* the last renamed "End" when it has neither "end" nor "total".
C21_PairsKeptAmended ==
  \A p \in Procs :
    Repaired(p) =>
      LET response == inflight[p].response
          kept == KeptPositions(response)
          n == Len(kept)
      IN /\ ValuesRetained(p)
         /\ ResultNames(p) =
              [k \in 1..n |->
                 IF response.statistics.type = "pie_chart"
                 THEN InputName(response, kept[k])
                 ELSE Relabelled(InputName(response, kept[k]), kept[k], k, n,
                                 ValuesOf(response)[kept[1]].n)]

\* a pie answer of three pairs whose second value is not numeric was
\* accepted with the two other pairs
C21_Witness ==
  /\ Repaired(1)
  /\ result[1].statistics.type = "pie_chart"
  /\ Len(NamesOf(inflight[1].response)) = 3
  /\ NumericPositions(inflight[1].response) = {1, 3}
  /\ Len(ResultNames(1)) = 2

\* the arrays of the response have equal length, its labels or categories
\* are non-empty strings and its values are numbers
AlreadyValid(response) ==
  /\ HasArrays(response)
  /\ Len(NamesOf(response)) = Len(ValuesOf(response))
  /\ \A i \in 1..Len(NamesOf(response)) :
       NamesOf(response)[i].t = "string" /\ NamesOf(response)[i].s # ""
  /\ \A i \in 1..Len(ValuesOf(response)) :
       ValuesOf(response)[i].t = "number" /\ ~ValuesOf(response)[i].nan
  /\ response.statistics.type = "waterfall_chart" =>
       Len(ValuesOf(response)) >= 2

\* the values of the result are those of the response, entry by entry
ValuesUnchanged(p) ==
  result[p].statistics.data.values =
    [i \in 1..Len(ValuesOf(inflight[p].response)) |->
       ValuesOf(inflight[p].response)[i].n]

\* C24: validateResponse leaves already-valid chart data unchanged: with
\* arrays of equal length and values that are all numbers, the labels or
\* categories and the values of the result are those of the response,
\* entry by entry.
C24_ValidDataUnchanged ==
  \A p \in Procs :
    (Repaired(p) /\ AlreadyValid(inflight[p].response)) =>
      /\ ValuesUnchanged(p)
      /\ ResultNames(p) = NamesOf(inflight[p].response)

\* an optional field of the result: the one of the response when it had
\* one, a default otherwise
KeptOrAdded(field, given) ==
  /\ field.present
  /\ given.present => field = given

\* C24 as amended: for such a response the values of the result are those
\* of the response and so are the labels of a pie chart; the categories of
\* a waterfall chart are those of the response except that the first
\* becomes "Start" when its value is 0 and it has no "start", and the last
\* becomes "End" when it has neither "end" nor "total"; missing colors and
\* label texts are added, given ones kept.
C24_ValidDataAmended ==
  \A p \in Procs :
    (Repaired(p) /\ AlreadyValid(inflight[p].response)) =>
      LET response == inflight[p].response
          given == response.statistics.data
          data == result[p].statistics.data
          n == Len(ValuesOf(response))
      IN /\ ValuesUnchanged(p)
         /\ IF response.statistics.type = "pie_chart"
            THEN /\ data.labels = given.labels.items
                 /\ KeptOrAdded(data.colors, given.colors)
                 /\ ~given.colors.present =>
                      Len(data.colors.items) = Len(data.labels)
            ELSE /\ data.categories =
                      [k \in 1..n |->
                         Relabelled(given.categories.items[k], k, k, n,
                                    ValuesOf(response)[1].n)]
                 /\ KeptOrAdded(data.increaseLabelText,
                                given.increaseLabelText)
                 /\ KeptOrAdded(data.decreaseLabelText,
                                given.decreaseLabelText)
                 /\ KeptOrAdded(data.totalLabelText, given.totalLabelText)

\* a waterfall answer that starts at 0 with "Start" and ends with
\* "Net Total" was accepted as it was, the label texts added
C24_Witness ==
  /\ Repaired(1)
  /\ AlreadyValid(inflight[1].response)
  /\ result[1].statistics.type = "waterfall_chart"
  /\ ~inflight[1].response.statistics.data.totalLabelText.present
  /\ result[1].statistics.data.totalLabelText.present
  /\ result[1].statistics.data.categories =
       <<Str("Start"), Str("Revenue"), Str("Net Total")>>

\* C25: the history entries of different messages of one session never
\* interleave: every system entry comes right after the user entry of the
\* question it answers, whatever the interleaving of the message and
\* delete requests on the session.
C25_NoInterleaving ==
  \A s \in Sessions :
    \A i \in 1..Len(chat.history[s]) :
      chat.history[s][i].role = "system" =>
        /\ i > 1
        /\ chat.history[s][i - 1] = Entry("user", chat.history[s][i].content)

\* C26: once the cleanup has deleted a session from the map, its id is
\* never in the map again: a handler that was awaiting the analysis for
\* that session does not put it back.
C26_DeletedStaysDeleted ==
  [][\A s \in Sessions :
       (s \in chat.created /\ s \notin chat.chatSessions) =>
         s \notin chat'.chatSessions]_vars

(***************************************************************************)
(* The invoice module.                                                     *)
(***************************************************************************)
\* the uploadInvoice call in progress has rejected
UploadFailed ==
  /\ inv.op = "uploadInvoice"
  /\ inv.pc = "done"
  /\ inv.outcome = "rejected"

\* the rows the call in progress has written
OwnRows(rows) == {row \in rows : row.call = inv.ops}

\* C27: an uploadInvoice call that has failed on its validation, on the
\* customer check, on the insert of the invoice or of an item, or on any
\* other step before its COMMIT, has left the stored invoices and items as
\* they were when it started, and no row of it is stored.
C27_FailedUploadStoresNothing ==
  (UploadFailed /\ inv.cause # "commit") =>
    /\ inv.stored = inv.before
    /\ OwnRows(inv.stored) = {}

\* a call failed on its second item, after an earlier call stored an invoice
C27_Witness ==
  /\ UploadFailed
  /\ inv.cause = "insertItem"
  /\ inv.inserted = 1
  /\ inv.before # {}
  /\ inv.stored = inv.before

\* the cents between the total of the invoice and subtotal - discount + tax
\* + shipping, missing amounts counted as 0
CentsApart(data) ==
  LET calculated == data.subtotal.cents - OrZero(data.discount)
                      + OrZero(data.tax) + OrZero(data.shipping)
  IN  IF calculated > data.total.cents THEN calculated - data.total.cents
      ELSE data.total.cents - calculated

\* C28: an uploadInvoice call whose total is more than 0.01 from subtotal
\* - discount + tax + shipping has rejected with an InvoiceError without
\* acquiring a connection, and a call whose total is at most 0.01 from it
\* has not been rejected for its total.
C28_ToleranceOneCent ==
  (inv.op = "uploadInvoice") =>
    IF CentsApart(inv.data) > 1
    THEN /\ UploadFailed
         /\ inv.thrown = "InvoiceError"
         /\ inv.connects = 0
    ELSE inv.message # "Total amount does not match calculated total"

\* C29: no client is released more often than it was acquired, and when a
\* call of uploadInvoice or createCustomer has settled, the client it
\* acquired has been released once and no client is checked out.
C29_ClientReleasedOnce ==
  /\ inv.releases <= inv.connects
  /\ inv.checkedOut = inv.connects - inv.releases
  /\ inv.pc \in {"idle", "done"} => inv.checkedOut = 0

\* the last call of a sequence has settled after its ROLLBACK failed
C29_Witness ==
  /\ inv.pc = "done"
  /\ inv.ops = MaxOps
  /\ inv.caught # ""
  /\ inv.thrown = "Error"
  /\ inv.connects = 1
  /\ inv.releases = 1
  /\ inv.checkedOut = 0

(***************************************************************************)
(* getInvoices.                                                            *)
(***************************************************************************)
\* the query names a column of the alias c
ReferencesCustomers(query) ==
  \E k \in 1..Len(query) : NamesCustomers(query[k])

HasJoin(query) == \E k \in 1..Len(query) : query[k] = JoinCustomers

\* C30: the count query and the data query that getInvoices has built for
\* accepted options contain the join on customers whenever they name a
\* column of the alias c.
C30_JoinWheneverReferenced ==
  gi.pc # "idle" =>
    /\ ReferencesCustomers(gi.countQuery) => HasJoin(gi.countQuery)
    /\ ReferencesCustomers(gi.dataQuery) => HasJoin(gi.dataQuery)
====
